---- MODULE Spec2Model ----
(***************************************************************************)
(* A model of the imajin-chat backend: the route handlers of               *)
(* /api/conversations, /api/conversations/:id, .../participants,           *)
(* .../messages, /api/invites, /api/invites/:id, /api/keys and             *)
(* /api/keys/:did over the relational store of the drizzle schema.         *)
(*                                                                         *)
(* A handler is a chain of awaited store statements.  Every awaited        *)
(* statement is one step of the model, so that requests running in         *)
(* different slots interleave exactly where the code awaits.  The          *)
(* synchronous code between two awaits belongs to the step of the await    *)
(* that precedes it; the arrival of a request is merged with its first     *)
(* store statement.  A trailing re-read that only fills the response body  *)
(* is merged with the statement before it.                                  *)
(***************************************************************************)
EXTENDS Integers, Sequences, FiniteSets, TLC

(***************************************************************************)
(* Bounds of the model.                                                    *)
(***************************************************************************)
NumSlots == 2        \* requests that may be in flight together
MaxConvs == 2        \* conversation ids ever generated
MaxSeqConvs == 1     \* of them, where one request runs at a time
MaxMsgs == 4         \* message ids ever generated
MaxFewMsgs == 2      \* of them, where the messages are not what is looked at
MaxInvites == 1      \* invite ids ever generated
MaxPreKeys == 2      \* pre-key ids ever generated
MaxHandOut == 2      \* fetches stop once a pre-key was returned this often
MaxTime == 3         \* the clock stops here
MaxInviteTime == 2   \* and here where invites are looked at
MaxUses == 1         \* largest maxUses a request asks for
MaxHours == 1        \* largest expiresInHours a request asks for

(***************************************************************************)
(* Values.                                                                 *)
(***************************************************************************)
\* "a" stands for the well-formed identifier did:imajin:a, and so on.
DIDs == {"a", "b", "c"}
\* One more identity, which only ever joins through an invite.
Newcomer == "d"
Identities == DIDs \cup {Newcomer}
\* An identifier the pattern of isValidDid rejects.
BadDid == "did:bad!"
Null == "null"
\* null where the value is an id.
NoId == 0
NoRow == [row |-> FALSE]
Idle == [pc |-> "idle"]

Slots == 1 .. NumSlots
ConvIds == 1 .. MaxConvs
MsgIds == 1 .. MaxMsgs
InviteIds == 1 .. MaxInvites
PreKeyIds == 1 .. MaxPreKeys

\* The contents of an uploaded bundle (identityKey, signedPreKey, signature).
Bundles == {"k1", "k2"}

VARIABLES
  conversations,  \* ConvIds -> NoRow or the row of table conversations
  participants,   \* ConvIds \X Identities -> NoRow or the row of table participants
  messages,       \* the rows of table messages, in insertion order
  invites,        \* InviteIds -> NoRow or the row of table invites
  publicKeys,     \* DIDs -> NoRow or the row of table public_keys
  preKeys,        \* PreKeyIds -> NoRow or the row of table pre_keys
  ids,            \* how many ids generateId has produced, per prefix
  now,            \* the clock (new Date(), defaultNow())
  reqs,           \* Slots -> the request in that slot: its position, locals, response
  handedOut,      \* history: PreKeyIds -> responses that carried the pre-key
  joinedVia       \* history: InviteIds -> participant rows inserted by a redeem

vars == << conversations, participants, messages, invites, publicKeys, preKeys,
           ids, now, reqs, handedOut, joinedVia >>

convTables == << conversations, participants, messages, invites >>
keyTables == << publicKeys, preKeys >>
history == << handedOut, joinedVia >>

(***************************************************************************)
(* src/lib/utils.ts                                                        *)
(***************************************************************************)
isValidDid(did) == did \in Identities

\* hierarchy.indexOf(role): -1 for a string that is not in the list.
hierarchyIndexOf(role) ==
  CASE role = "readonly" -> 0
    [] role = "member" -> 1
    [] role = "admin" -> 2
    [] role = "owner" -> 3
    [] OTHER -> -1

hasRole(userRole, requiredRole) ==
  hierarchyIndexOf(userRole) >= hierarchyIndexOf(requiredRole)

\* generateId(prefix): a fresh id; the model numbers them in order of creation.
generateId(prefix) == ids[prefix] + 1

(***************************************************************************)
(* The store after construction: every table empty.                        *)
(***************************************************************************)
EmptyStore ==
  /\ conversations = [c \in ConvIds |-> NoRow]
  /\ participants = [p \in ConvIds \X Identities |-> NoRow]
  /\ messages = << >>
  /\ invites = [i \in InviteIds |-> NoRow]
  /\ publicKeys = [d \in DIDs |-> NoRow]
  /\ preKeys = [k \in PreKeyIds |-> NoRow]
  /\ ids = [conv |-> 0, msg |-> 0, inv |-> 0, pk |-> 0]
  /\ now = 0
  /\ handedOut = [k \in PreKeyIds |-> 0]
  /\ joinedVia = [i \in InviteIds |-> 0]

Init ==
  /\ EmptyStore
  /\ reqs = [s \in Slots |-> Idle]

\* A slot takes a new request when it holds none.
Free(s) == reqs[s].pc = "idle"

\* No request is between its first and its last statement.
Quiescent == \A s \in Slots : reqs[s].pc \in {"idle", "done"}

\* The response leaves the server; the slot is free again.
Deliver(s) ==
  /\ reqs[s].pc = "done"
  /\ reqs' = [reqs EXCEPT ![s] = Idle]
  /\ UNCHANGED << conversations, participants, messages, invites, publicKeys,
                  preKeys, ids, now, handedOut, joinedVia >>

At(s, op, pc) == reqs[s].pc = pc /\ reqs[s].op = op

(***************************************************************************)
(* Rows and reads shared by the conversation handlers.                     *)
(***************************************************************************)
\* null where the value is a timestamp.
NoTime == -1

\* db.query.participants.findFirst({where: conversationId = c and did = d})
Participant(c, d) == participants[<<c, d>>]

ParticipantsOf(c) == {d \in Identities : Participant(c, d) # NoRow}

Owners(c) == {d \in ParticipantsOf(c) : Participant(c, d).role = "owner"}

ParticipantRow(role, invitedBy) ==
  [row |-> TRUE, role |-> role, invitedBy |-> invitedBy]

\* A system message: { type: 'system', text }.
SystemContent(kind, did) == [type |-> "system", kind |-> kind, did |-> did]

MessageRow(conversationId, fromDid, content, contentType, replyTo) ==
  [id |-> generateId("msg"), conversationId |-> conversationId,
   fromDid |-> fromDid, content |-> content, contentType |-> contentType,
   replyTo |-> replyTo, createdAt |-> now, deletedAt |-> NoTime]

\* The message table has room for one more row.  A request whose handler
\* writes a message arrives only while it has.
MessageRoom == ids.msg < MaxMsgs

\* db.insert(messages).values(row)
InsertMessage(row) ==
  /\ messages' = Append(messages, row)
  /\ ids' = [ids EXCEPT !.msg = row.id]

\* A request to a handler of /api/conversations/:id and below as it arrives.
\* member records whether the requester has a participant row at that moment.
Request(op, identity, c, pc) ==
  [pc |-> pc, op |-> op, who |-> identity, conv |-> c,
   member |-> Participant(c, identity) # NoRow]

\* The response to such a request.
Resp(r, status) ==
  [pc |-> "done", op |-> r.op, who |-> r.who, conv |-> r.conv,
   status |-> status, member |-> r.member]

\* What a handler does once its first checks gave verdict: answer it, or go on.
Checked(r, verdict) == IF verdict # 0 THEN Resp(r, verdict) ELSE r

(***************************************************************************)
(* POST /api/conversations (src/app/api/conversations/route.ts): create a  *)
(* conversation, or return the direct conversation that already exists.    *)
(***************************************************************************)
CreateResp(r, status, existing, conv) ==
  [pc |-> "done", op |-> "conv.create", who |-> r.who, status |-> status,
   existing |-> existing, conv |-> conv]

\* The handler without the lookup: it finds no conversation to return.
ExistingDirectNone(identity, otherDid) == {}

\* The join of lines 83-95 grouped by conversation (lines 98-104), and the
\* conversations whose group holds both identities (line 107).
ExistingDirect(identity, otherDid) ==
  {c \in ConvIds : /\ conversations[c] # NoRow
                   /\ conversations[c].type = "direct"
                   /\ identity \in ParticipantsOf(c)
                   /\ otherDid \in ParticipantsOf(c)}

\* The validations of lines 60-79 and 118-120: 400, or 0 when they pass.
CreateValidation(type, name, dids) ==
  IF type \notin {"direct", "group"} THEN 400
  ELSE IF dids = << >> THEN 400
  ELSE IF \E i \in 1 .. Len(dids) : ~isValidDid(dids[i]) THEN 400
  ELSE IF type = "direct" /\ Len(dids) # 1 THEN 400
  ELSE IF type = "group" /\ name = Null THEN 400
  ELSE 0

StartCreate(s, identity, type, name, dids) ==
  /\ Free(s)
  /\ type = "group" => MessageRoom
  /\ LET r == [pc |-> "insertConv", op |-> "conv.create", who |-> identity,
               type |-> type, name |-> name, dids |-> dids, rest |-> << >>,
               conv |-> NoId]
         found == ExistingDirect(identity, dids[1]) IN
     IF CreateValidation(type, name, dids) # 0
     THEN reqs' = [reqs EXCEPT ![s] = CreateResp(r, 400, FALSE, NoId)]
     ELSE IF type = "direct" /\ found # {}
     THEN \E c \in found :
            reqs' = [reqs EXCEPT ![s] = [r EXCEPT !.pc = "findExisting", !.conv = c]]
     ELSE reqs' = [reqs EXCEPT ![s] = r]
  /\ UNCHANGED << convTables, keyTables, ids, now, history >>

\* Line 109: the re-read of the conversation found, then existing: true.
CreateFindExisting(s) ==
  /\ At(s, "conv.create", "findExisting")
  /\ reqs' = [reqs EXCEPT ![s] = CreateResp(@, 200, TRUE, @.conv)]
  /\ UNCHANGED << convTables, keyTables, ids, now, history >>

\* Lines 123-132.
CreateInsertConv(s) ==
  /\ At(s, "conv.create", "insertConv")
  /\ ids.conv < MaxConvs
  /\ LET r == reqs[s]
         id == generateId("conv") IN
     /\ conversations' = [conversations EXCEPT ![id] =
          [row |-> TRUE, type |-> r.type, name |-> r.name, createdBy |-> r.who,
           updatedAt |-> now, lastMessageAt |-> NoTime]]
     /\ ids' = [ids EXCEPT !.conv = id]
     /\ reqs' = [reqs EXCEPT ![s] = [r EXCEPT !.pc = "insertOwner", !.conv = id]]
  /\ UNCHANGED << participants, messages, invites, keyTables, now, history >>

\* The dids the loop of lines 143-152 still has to insert.
OtherDids(dids, identity) == SelectSeq(dids, LAMBDA d : d # identity)

\* A handler that writes no system message for a group.
AfterParticipantsNoMessage(r, rest) ==
  IF rest # << >> THEN [r EXCEPT !.pc = "insertMember", !.rest = rest]
  ELSE CreateResp(r, 201, FALSE, r.conv)

\* Where a create goes once the participants are in: the system message of a
\* group (line 155), or the response.
AfterParticipants(r, rest) ==
  IF rest # << >> THEN [r EXCEPT !.pc = "insertMember", !.rest = rest]
  ELSE IF r.type = "group" THEN [r EXCEPT !.pc = "insertMessage"]
  ELSE CreateResp(r, 201, FALSE, r.conv)

\* Lines 135-140: the creator, role owner.  The foreign key refuses the row
\* when the conversation is gone; the catch of line 170 answers 500.
CreateInsertOwner(s) ==
  /\ At(s, "conv.create", "insertOwner")
  /\ LET r == reqs[s] IN
     IF conversations[r.conv] = NoRow \/ Participant(r.conv, r.who) # NoRow
     THEN /\ reqs' = [reqs EXCEPT ![s] = CreateResp(r, 500, FALSE, r.conv)]
          /\ UNCHANGED participants
     ELSE /\ participants' = [participants EXCEPT ![<<r.conv, r.who>>] =
               ParticipantRow("owner", Null)]
          /\ reqs' = [reqs EXCEPT ![s] =
               AfterParticipants(r, OtherDids(r.dids, r.who))]
  /\ UNCHANGED << conversations, messages, invites, keyTables, ids, now, history >>

\* Lines 145-150, one turn of the loop: the next did, role member.  The
\* primary key refuses a did that is already a participant.
CreateInsertMember(s) ==
  /\ At(s, "conv.create", "insertMember")
  /\ LET r == reqs[s]
         did == Head(r.rest) IN
     IF conversations[r.conv] = NoRow \/ Participant(r.conv, did) # NoRow
     THEN /\ reqs' = [reqs EXCEPT ![s] = CreateResp(r, 500, FALSE, r.conv)]
          /\ UNCHANGED participants
     ELSE /\ participants' = [participants EXCEPT ![<<r.conv, did>>] =
               ParticipantRow("member", r.who)]
          /\ reqs' = [reqs EXCEPT ![s] = AfterParticipants(r, Tail(r.rest))]
  /\ UNCHANGED << conversations, messages, invites, keyTables, ids, now, history >>

\* Lines 155-163: the system message of a group, then the response.
CreateInsertMessage(s) ==
  /\ At(s, "conv.create", "insertMessage")
  /\ MessageRoom
  /\ LET r == reqs[s] IN
     IF conversations[r.conv] = NoRow
     THEN /\ reqs' = [reqs EXCEPT ![s] = CreateResp(r, 500, FALSE, r.conv)]
          /\ UNCHANGED << messages, ids >>
     ELSE /\ InsertMessage(MessageRow(r.conv, r.who, SystemContent("created", r.who),
                                      "system", NoId))
          /\ reqs' = [reqs EXCEPT ![s] = CreateResp(r, 201, FALSE, r.conv)]
  /\ UNCHANGED << conversations, participants, invites, keyTables, now, history >>

(***************************************************************************)
(* GET, PATCH, DELETE /api/conversations/:id                               *)
(* (src/app/api/conversations/[id]/route.ts, lines 1-150).                 *)
(***************************************************************************)
\* A handler that reads the conversation before the participant row, and
\* tells a missing conversation from a requester who is not in it.
GetCheckLeaky(c, identity) ==
  IF conversations[c] = NoRow THEN 404
  ELSE IF Participant(c, identity) = NoRow THEN 403
  ELSE 0

\* Lines 24-33: 404 for a requester without a participant row, else 0.
GetCheck(c, identity) ==
  IF Participant(c, identity) = NoRow THEN 404 ELSE 0

GetConversation(s, identity, c) ==
  /\ Free(s)
  /\ reqs' = [reqs EXCEPT ![s] =
       Checked(Request("conv.get", identity, c, "findConv"), GetCheck(c, identity))]
  /\ UNCHANGED << convTables, keyTables, ids, now, history >>

\* Lines 36-52: the conversation and its participants.
GetFindConv(s) ==
  /\ At(s, "conv.get", "findConv")
  /\ reqs' = [reqs EXCEPT ![s] =
       Resp(@, IF conversations[@.conv] = NoRow THEN 404 ELSE 200)]
  /\ UNCHANGED << convTables, keyTables, ids, now, history >>

\* Lines 76-85: 403 unless the requester is a participant with role admin or above.
UpdateCheck(c, identity) ==
  LET participant == Participant(c, identity) IN
  IF participant = NoRow \/ ~hasRole(participant.role, "admin") THEN 403 ELSE 0

UpdateConversation(s, identity, c, name) ==
  /\ Free(s)
  /\ reqs' = [reqs EXCEPT ![s] =
       Checked(Request("conv.update", identity, c, "update") @@ [name |-> name],
               UpdateCheck(c, identity))]
  /\ UNCHANGED << convTables, keyTables, ids, now, history >>

\* Lines 90-107: set the fields the body names (name stands for name,
\* description and visibility alike) and updatedAt; a missing row updates nothing.
UpdateWrite(s) ==
  /\ At(s, "conv.update", "update")
  /\ LET r == reqs[s] IN
     /\ conversations' =
          IF conversations[r.conv] = NoRow THEN conversations
          ELSE [conversations EXCEPT ![r.conv] =
                  [@ EXCEPT !.name = r.name, !.updatedAt = now]]
     /\ reqs' = [reqs EXCEPT ![s] = Resp(r, 200)]
  /\ UNCHANGED << participants, messages, invites, keyTables, ids, now, history >>

\* A handler that answers 404 to a requester without a participant row.
DeleteCheckNotFound(c, identity) ==
  LET participant == Participant(c, identity) IN
  IF participant = NoRow THEN 404
  ELSE IF participant.role # "owner" THEN 403
  ELSE 0

\* Lines 131-140: 403 unless the requester is the owner.
DeleteCheck(c, identity) ==
  LET participant == Participant(c, identity) IN
  IF participant = NoRow \/ participant.role # "owner" THEN 403 ELSE 0

DeleteConversation(s, identity, c) ==
  /\ Free(s)
  /\ reqs' = [reqs EXCEPT ![s] =
       Checked(Request("conv.delete", identity, c, "delete"), DeleteCheck(c, identity))]
  /\ UNCHANGED << convTables, keyTables, ids, now, history >>

\* A delete whose messages stay behind.
DeleteNoCascade(s) ==
  /\ At(s, "conv.delete", "delete")
  /\ LET r == reqs[s] IN
     /\ conversations' = [conversations EXCEPT ![r.conv] = NoRow]
     /\ participants' = [p \in ConvIds \X Identities |->
          IF p[1] = r.conv THEN NoRow ELSE participants[p]]
     /\ invites' = [i \in InviteIds |->
          IF invites[i] # NoRow /\ invites[i].conversationId = r.conv
          THEN NoRow ELSE invites[i]]
     /\ reqs' = [reqs EXCEPT ![s] = Resp(r, 200)]
  /\ UNCHANGED << messages, keyTables, ids, now, history >>

\* Line 143 with the schema's onDelete: 'cascade' on participants, messages
\* and invites.
DeleteCascade(s) ==
  /\ At(s, "conv.delete", "delete")
  /\ LET r == reqs[s] IN
     /\ conversations' = [conversations EXCEPT ![r.conv] = NoRow]
     /\ participants' = [p \in ConvIds \X Identities |->
          IF p[1] = r.conv THEN NoRow ELSE participants[p]]
     /\ messages' = SelectSeq(messages, LAMBDA m : m.conversationId # r.conv)
     /\ invites' = [i \in InviteIds |->
          IF invites[i] # NoRow /\ invites[i].conversationId = r.conv
          THEN NoRow ELSE invites[i]]
     /\ reqs' = [reqs EXCEPT ![s] = Resp(r, 200)]
  /\ UNCHANGED << keyTables, ids, now, history >>

(***************************************************************************)
(* GET, POST, PATCH, DELETE /api/conversations/:id/participants            *)
(* (src/app/api/conversations/[id]/participants/route.ts).                 *)
(***************************************************************************)
\* The values a body may carry as role; "vip" is a string outside the hierarchy.
RoleInputs == {"readonly", "member", "admin", "owner", "vip"}

\* Lines 24-33.
ListParticipantsCheck(c, identity) ==
  IF Participant(c, identity) = NoRow THEN 404 ELSE 0

\* Lines 24-39: the second read fills the response.
ListParticipants(s, identity, c) ==
  /\ Free(s)
  /\ reqs' = [reqs EXCEPT ![s] =
       Checked(Request("part.list", identity, c, "findMany"),
               ListParticipantsCheck(c, identity))]
  /\ UNCHANGED << convTables, keyTables, ids, now, history >>

ListFindMany(s) ==
  /\ At(s, "part.list", "findMany")
  /\ reqs' = [reqs EXCEPT ![s] = Resp(@, 200)]
  /\ UNCHANGED << convTables, keyTables, ids, now, history >>

\* A handler without the rank check of lines 81-84.
AddCheckNoRank(c, identity, did, role) ==
  LET myParticipant == Participant(c, identity) IN
  IF myParticipant = NoRow \/ ~hasRole(myParticipant.role, "admin") THEN 403
  ELSE IF ~isValidDid(did) THEN 400
  ELSE 0

\* Lines 63-84: the membership read and the checks on the body.
AddCheck(c, identity, did, role) ==
  LET myParticipant == Participant(c, identity) IN
  IF myParticipant = NoRow \/ ~hasRole(myParticipant.role, "admin") THEN 403
  ELSE IF ~isValidDid(did) THEN 400
  ELSE IF myParticipant.role # "owner" /\ hasRole(role, myParticipant.role) THEN 400
  ELSE 0

AddParticipant(s, identity, c, did, role) ==
  /\ Free(s)
  /\ MessageRoom
  /\ reqs' = [reqs EXCEPT ![s] =
       Checked(Request("part.add", identity, c, "findExisting")
                 @@ [did |-> did, role |-> role],
               AddCheck(c, identity, did, role))]
  /\ UNCHANGED << convTables, keyTables, ids, now, history >>

\* Lines 87-96.
AddFindExisting(s) ==
  /\ At(s, "part.add", "findExisting")
  /\ reqs' = [reqs EXCEPT ![s] =
       IF Participant(@.conv, @.did) # NoRow THEN Resp(@, 409)
       ELSE [@ EXCEPT !.pc = "insert"]]
  /\ UNCHANGED << convTables, keyTables, ids, now, history >>

\* Lines 99-104.  The primary key refuses a second row for the did, the
\* foreign key a conversation that is gone; the catch of line 123 answers 500.
AddInsert(s) ==
  /\ At(s, "part.add", "insert")
  /\ LET r == reqs[s] IN
     IF conversations[r.conv] = NoRow \/ Participant(r.conv, r.did) # NoRow
     THEN /\ reqs' = [reqs EXCEPT ![s] = Resp(r, 500)]
          /\ UNCHANGED participants
     ELSE /\ participants' = [participants EXCEPT ![<<r.conv, r.did>>] =
               ParticipantRow(r.role, r.who)]
          /\ reqs' = [reqs EXCEPT ![s] = [r EXCEPT !.pc = "insertMessage"]]
  /\ UNCHANGED << conversations, messages, invites, keyTables, ids, now, history >>

\* Lines 107-122.
AddInsertMessage(s) ==
  /\ At(s, "part.add", "insertMessage")
  /\ MessageRoom
  /\ LET r == reqs[s] IN
     IF conversations[r.conv] = NoRow
     THEN /\ reqs' = [reqs EXCEPT ![s] = Resp(r, 500)]
          /\ UNCHANGED << messages, ids >>
     ELSE /\ InsertMessage(MessageRow(r.conv, r.who, SystemContent("added", r.did),
                                      "system", NoId))
          /\ reqs' = [reqs EXCEPT ![s] = Resp(r, 201)]
  /\ UNCHANGED << conversations, participants, invites, keyTables, now, history >>

\* A handler that lets admins change roles too.
SetRoleCheckAdmin(c, identity, did, role) ==
  LET myParticipant == Participant(c, identity) IN
  IF ~isValidDid(did) THEN 400
  ELSE IF role \notin {"readonly", "member", "admin"} THEN 400
  ELSE IF myParticipant = NoRow \/ ~hasRole(myParticipant.role, "admin") THEN 403
  ELSE IF did = identity THEN 400
  ELSE 0

\* A handler without the self check of lines 169-171.
SetRoleCheckNoSelf(c, identity, did, role) ==
  LET myParticipant == Participant(c, identity) IN
  IF ~isValidDid(did) THEN 400
  ELSE IF role \notin {"readonly", "member", "admin"} THEN 400
  ELSE IF myParticipant = NoRow \/ myParticipant.role # "owner" THEN 403
  ELSE 0

\* Lines 148-171: the checks on the body, the membership read, the self check.
SetRoleCheck(c, identity, did, role) ==
  LET myParticipant == Participant(c, identity) IN
  IF ~isValidDid(did) THEN 400
  ELSE IF role \notin {"readonly", "member", "admin"} THEN 400
  ELSE IF myParticipant = NoRow \/ myParticipant.role # "owner" THEN 403
  ELSE IF did = identity THEN 400
  ELSE 0

SetRole(s, identity, c, did, role) ==
  /\ Free(s)
  /\ MessageRoom
  /\ reqs' = [reqs EXCEPT ![s] =
       Checked(Request("part.setRole", identity, c, "update")
                 @@ [did |-> did, role |-> role],
               SetRoleCheck(c, identity, did, role))]
  /\ UNCHANGED << convTables, keyTables, ids, now, history >>

\* Lines 174-182: update ... set role where conversationId and did match; no
\* row matches when the did is not a participant.
SetRoleUpdate(s) ==
  /\ At(s, "part.setRole", "update")
  /\ LET r == reqs[s] IN
     /\ participants' =
          IF Participant(r.conv, r.did) = NoRow THEN participants
          ELSE [participants EXCEPT ![<<r.conv, r.did>>] = [@ EXCEPT !.role = r.role]]
     /\ reqs' = [reqs EXCEPT ![s] = [r EXCEPT !.pc = "insertMessage"]]
  /\ UNCHANGED << conversations, messages, invites, keyTables, ids, now, history >>

\* Lines 185-193.
SetRoleInsertMessage(s) ==
  /\ At(s, "part.setRole", "insertMessage")
  /\ MessageRoom
  /\ LET r == reqs[s] IN
     IF conversations[r.conv] = NoRow
     THEN /\ reqs' = [reqs EXCEPT ![s] = Resp(r, 500)]
          /\ UNCHANGED << messages, ids >>
     ELSE /\ InsertMessage(MessageRow(r.conv, r.who, SystemContent(r.role, r.did),
                                      "system", NoId))
          /\ reqs' = [reqs EXCEPT ![s] = Resp(r, 200)]
  /\ UNCHANGED << conversations, participants, invites, keyTables, now, history >>

\* A handler without the check of lines 241-244: the owner may leave.
RemoveCheckOwnerLeaves(c, identity, did) ==
  LET myParticipant == Participant(c, identity) IN
  IF ~isValidDid(did) THEN 400
  ELSE IF myParticipant = NoRow THEN 404
  ELSE IF did # identity /\ ~hasRole(myParticipant.role, "admin") THEN 403
  ELSE 0

\* Lines 219-244: the check on the query, the membership read, and the checks
\* that need no second read.
RemoveCheck(c, identity, did) ==
  LET myParticipant == Participant(c, identity) IN
  IF ~isValidDid(did) THEN 400
  ELSE IF myParticipant = NoRow THEN 404
  ELSE IF did # identity /\ ~hasRole(myParticipant.role, "admin") THEN 403
  ELSE IF did = identity /\ myParticipant.role = "owner" THEN 400
  ELSE 0

RemoveParticipant(s, identity, c, did) ==
  /\ Free(s)
  /\ MessageRoom
  /\ reqs' = [reqs EXCEPT ![s] =
       Checked(Request("part.remove", identity, c, "findTarget")
                 @@ [did |-> did, myRole |-> IF Participant(c, identity) = NoRow
                                             THEN Null
                                             ELSE Participant(c, identity).role],
               RemoveCheck(c, identity, did))]
  /\ UNCHANGED << convTables, keyTables, ids, now, history >>

\* A handler without the rank check of lines 258-261.
RemoveFindTargetNoRank(s) ==
  /\ At(s, "part.remove", "findTarget")
  /\ LET r == reqs[s]
         targetParticipant == Participant(r.conv, r.did) IN
     reqs' = [reqs EXCEPT ![s] =
       IF targetParticipant = NoRow THEN Resp(r, 404)
       ELSE [r EXCEPT !.pc = "delete"]]
  /\ UNCHANGED << convTables, keyTables, ids, now, history >>

\* Lines 247-261: the target's row, and the rank check against the role the
\* requester had when line 223 read it.
RemoveFindTarget(s) ==
  /\ At(s, "part.remove", "findTarget")
  /\ LET r == reqs[s]
         targetParticipant == Participant(r.conv, r.did) IN
     reqs' = [reqs EXCEPT ![s] =
       IF targetParticipant = NoRow THEN Resp(r, 404)
       ELSE IF r.did # r.who /\ hasRole(targetParticipant.role, r.myRole)
       THEN Resp(r, 400)
       ELSE [r EXCEPT !.pc = "delete"]]
  /\ UNCHANGED << convTables, keyTables, ids, now, history >>

\* Lines 264-271.
RemoveDelete(s) ==
  /\ At(s, "part.remove", "delete")
  /\ participants' = [participants EXCEPT ![<<reqs[s].conv, reqs[s].did>>] = NoRow]
  /\ reqs' = [reqs EXCEPT ![s] = [@ EXCEPT !.pc = "insertMessage"]]
  /\ UNCHANGED << conversations, messages, invites, keyTables, ids, now, history >>

\* Lines 274-283.
RemoveInsertMessage(s) ==
  /\ At(s, "part.remove", "insertMessage")
  /\ MessageRoom
  /\ LET r == reqs[s] IN
     IF conversations[r.conv] = NoRow
     THEN /\ reqs' = [reqs EXCEPT ![s] = Resp(r, 500)]
          /\ UNCHANGED << messages, ids >>
     ELSE /\ InsertMessage(MessageRow(r.conv, r.who,
                 SystemContent(IF r.did = r.who THEN "left" ELSE "removed", r.did),
                 "system", NoId))
          /\ reqs' = [reqs EXCEPT ![s] = Resp(r, 200)]
  /\ UNCHANGED << conversations, participants, invites, keyTables, now, history >>

(***************************************************************************)
(* GET, POST /api/conversations/:id/messages                               *)
(* (src/app/api/conversations/[id]/route.ts, lines 155-324).               *)
(***************************************************************************)
\* A body without content.
NoContent == [absent |-> TRUE]

\* What a client sends as content: nothing, an encrypted payload, or an
\* object that names itself a system message.
ContentInputs == {NoContent, [encrypted |-> "e"], [type |-> "system", text |-> "t"]}

\* Line 279: content.type === 'system' ? 'system' : 'text'
contentTypeOf(content) ==
  IF "type" \in DOMAIN content /\ content.type = "system" THEN "system" ELSE "text"

Min(x, y) == IF x < y THEN x ELSE y

\* Line 175: Math.min(parseInt(limit || '50'), 100).  A request without the
\* parameter asks for DefaultLimit.
DefaultLimit == 50
LimitCap == 100
LimitInputs == {1, 2, DefaultLimit}
limitOf(limit) == Min(limit, LimitCap)

\* Lines 180-189.
ListMessagesCheck(c, identity) ==
  IF Participant(c, identity) = NoRow THEN 404 ELSE 0

ListMessages(s, identity, c, limit, before) ==
  /\ Free(s)
  /\ reqs' = [reqs EXCEPT ![s] =
       Checked(Request("msg.list", identity, c,
                       IF before = NoId THEN "query" ELSE "cursor")
                 @@ [limit |-> limitOf(limit), before |-> before, cursorAt |-> NoTime],
               ListMessagesCheck(c, identity))]
  /\ UNCHANGED << convTables, keyTables, ids, now, history >>

\* Lines 205-209: the cursor message, looked up by its id alone.
ListFindCursor(s) ==
  /\ At(s, "msg.list", "cursor")
  /\ LET r == reqs[s]
         found == {i \in 1 .. Len(messages) : messages[i].id = r.before} IN
     reqs' = [reqs EXCEPT ![s] =
       [r EXCEPT !.pc = "query",
                 !.cursorAt = IF found = {} THEN NoTime
                              ELSE messages[CHOOSE i \in found : TRUE].createdAt]]
  /\ UNCHANGED << convTables, keyTables, ids, now, history >>

\* A query whose cursor keeps the rows of the cursor's own createdAt.
SelectedInclusive(c, cursorAt) ==
  {i \in 1 .. Len(messages) :
     /\ messages[i].conversationId = c
     /\ messages[i].deletedAt = NoTime
     /\ cursorAt # NoTime => messages[i].createdAt <= cursorAt}

\* The rows the query of lines 192-202 (or 210-221 with a cursor) selects.
Selected(c, cursorAt) ==
  {i \in 1 .. Len(messages) :
     /\ messages[i].conversationId = c
     /\ messages[i].deletedAt = NoTime
     /\ cursorAt # NoTime => messages[i].createdAt < cursorAt}

\* The orders orderBy(desc(createdAt)) may give them: rows of one createdAt
\* come in any order.
Descending(rows) ==
  {q \in [1 .. Cardinality(rows) -> rows] :
     /\ \A i, j \in DOMAIN q : i # j => q[i] # q[j]
     /\ \A i, j \in DOMAIN q :
          i < j => messages[q[i]].createdAt >= messages[q[j]].createdAt}

\* A page that is left newest first.
ReverseNot(q) == q

\* Line 228: result.reverse()
Reverse(q) == [i \in 1 .. Len(q) |-> q[Len(q) + 1 - i]]

\* A handler whose hasMore says whether older messages remain.
ListQueryExact(s) ==
  /\ At(s, "msg.list", "query")
  /\ LET r == reqs[s] IN
     \E q \in Descending(Selected(r.conv, r.cursorAt)) :
       LET result == SubSeq(q, 1, Min(r.limit, Len(q))) IN
       reqs' = [reqs EXCEPT ![s] =
         Resp(r, 200) @@ [messages |-> [i \in 1 .. Len(result) |->
                                          messages[Reverse(result)[i]].id],
                          hasMore |-> Len(result) < Len(q)]]
  /\ UNCHANGED << convTables, keyTables, ids, now, history >>

\* Lines 225-230: the page in chronological order, and hasMore.
ListQuery(s) ==
  /\ At(s, "msg.list", "query")
  /\ LET r == reqs[s] IN
     \E q \in Descending(Selected(r.conv, r.cursorAt)) :
       LET result == SubSeq(q, 1, Min(r.limit, Len(q))) IN
       reqs' = [reqs EXCEPT ![s] =
         Resp(r, 200) @@ [messages |-> [i \in 1 .. Len(result) |->
                                          messages[Reverse(result)[i]].id],
                          hasMore |-> Len(result) = r.limit]]
  /\ UNCHANGED << convTables, keyTables, ids, now, history >>

\* Lines 254-267: 404 without a participant row, 403 for role readonly.
SendCheck(c, identity) ==
  LET participant == Participant(c, identity) IN
  IF participant = NoRow THEN 404
  ELSE IF participant.role = "readonly" THEN 403
  ELSE 0

\* Lines 254-275: the membership read and the check of the body.
SendMessage(s, identity, c, content, replyTo) ==
  /\ Free(s)
  /\ MessageRoom
  /\ LET r == Request("msg.send", identity, c,
                      IF replyTo = NoId THEN "insert" ELSE "findReply")
                @@ [content |-> content, replyTo |-> replyTo] IN
     reqs' = [reqs EXCEPT ![s] =
       IF SendCheck(c, identity) # 0 THEN Resp(r, SendCheck(c, identity))
       ELSE IF content = NoContent THEN Resp(r, 400)
       ELSE r]
  /\ UNCHANGED << convTables, keyTables, ids, now, history >>

\* A handler that looks for the message replied to in every conversation.
SendFindReplyAnywhere(s) ==
  /\ At(s, "msg.send", "findReply")
  /\ LET r == reqs[s] IN
     reqs' = [reqs EXCEPT ![s] =
       IF \E i \in 1 .. Len(messages) : messages[i].id = r.replyTo
       THEN [r EXCEPT !.pc = "insert"]
       ELSE Resp(r, 404)]
  /\ UNCHANGED << convTables, keyTables, ids, now, history >>

\* Lines 282-292: the message replied to must be in this conversation.
SendFindReply(s) ==
  /\ At(s, "msg.send", "findReply")
  /\ LET r == reqs[s] IN
     reqs' = [reqs EXCEPT ![s] =
       IF \E i \in 1 .. Len(messages) :
            messages[i].id = r.replyTo /\ messages[i].conversationId = r.conv
       THEN [r EXCEPT !.pc = "insert"]
       ELSE Resp(r, 404)]
  /\ UNCHANGED << convTables, keyTables, ids, now, history >>

\* Lines 295-304.  The foreign key refuses a conversation that is gone.
SendInsert(s) ==
  /\ At(s, "msg.send", "insert")
  /\ MessageRoom
  /\ LET r == reqs[s] IN
     IF conversations[r.conv] = NoRow
     THEN /\ reqs' = [reqs EXCEPT ![s] = Resp(r, 500)]
          /\ UNCHANGED << messages, ids >>
     ELSE /\ InsertMessage(MessageRow(r.conv, r.who, r.content,
                                      contentTypeOf(r.content), r.replyTo))
          /\ reqs' = [reqs EXCEPT ![s] = [r EXCEPT !.pc = "touch"]]
  /\ UNCHANGED << conversations, participants, invites, keyTables, now, history >>

\* Lines 307-319: lastMessageAt and updatedAt, then the response.
SendTouch(s) ==
  /\ At(s, "msg.send", "touch")
  /\ LET r == reqs[s] IN
     /\ conversations' =
          IF conversations[r.conv] = NoRow THEN conversations
          ELSE [conversations EXCEPT ![r.conv] =
                  [@ EXCEPT !.lastMessageAt = now, !.updatedAt = now]]
     /\ reqs' = [reqs EXCEPT ![s] = Resp(r, 201)]
  /\ UNCHANGED << participants, messages, invites, keyTables, ids, now, history >>

(***************************************************************************)
(* POST, GET /api/invites (src/app/api/conversations/[id]/route.ts, lines  *)
(* 326-437): create an invite, list the invites of a conversation.         *)
(***************************************************************************)
\* null where the value is maxUses.
NoMax == -1

\* A handler that lets every participant above readonly create invites.
InviteCreateCheckMember(c, identity) ==
  LET participant == Participant(c, identity) IN
  IF participant = NoRow \/ ~hasRole(participant.role, "member") THEN 403 ELSE 0

\* Lines 352-361 and 414-423: 403 unless the requester is a participant with
\* role admin or above.
InviteCreateCheck(c, identity) ==
  LET participant == Participant(c, identity) IN
  IF participant = NoRow \/ ~hasRole(participant.role, "admin") THEN 403 ELSE 0

InviteListCheck(c, identity) ==
  LET participant == Participant(c, identity) IN
  IF participant = NoRow \/ ~hasRole(participant.role, "admin") THEN 403 ELSE 0

\* The invite table has room for one more row.  A request to create an
\* invite arrives only while it has.
InviteRoom == ids.inv < MaxInvites

\* A request that names a conversation (c = NoId: it names none).
InviteRequest(op, identity, c, pc) ==
  [pc |-> pc, op |-> op, who |-> identity, conv |-> c,
   member |-> c # NoId /\ Participant(c, identity) # NoRow]

\* null where the value is expiresInHours: the body has none.
NoHours == -1

\* Lines 344-367.  expiresInHours of 0 is falsy, as a body without it is:
\* expiresAt stays null.
CreateInvite(s, identity, c, forDid, maxUses, expiresInHours) ==
  /\ Free(s)
  /\ InviteRoom
  /\ LET r == InviteRequest("inv.create", identity, c, "insert")
                @@ [forDid |-> forDid, maxUses |-> maxUses,
                    expiresAt |-> IF expiresInHours \notin {0, NoHours}
                                  THEN now + expiresInHours
                                  ELSE NoTime] IN
     reqs' = [reqs EXCEPT ![s] =
       IF c = NoId THEN Resp(r, 400) ELSE Checked(r, InviteCreateCheck(c, identity))]
  /\ UNCHANGED << convTables, keyTables, ids, now, history >>

\* Lines 370-388.  The foreign key refuses a conversation that is gone.
InviteInsert(s) ==
  /\ At(s, "inv.create", "insert")
  /\ InviteRoom
  /\ LET r == reqs[s]
         id == generateId("inv") IN
     IF conversations[r.conv] = NoRow
     THEN /\ reqs' = [reqs EXCEPT ![s] = Resp(r, 500)]
          /\ UNCHANGED << invites, ids >>
     ELSE /\ invites' = [invites EXCEPT ![id] =
               [row |-> TRUE, conversationId |-> r.conv, createdBy |-> r.who,
                forDid |-> r.forDid, maxUses |-> r.maxUses, usedCount |-> 0,
                expiresAt |-> r.expiresAt, revokedAt |-> NoTime]]
          /\ ids' = [ids EXCEPT !.inv = id]
          /\ reqs' = [reqs EXCEPT ![s] = Resp(r, 201) @@ [invite |-> id]]
  /\ UNCHANGED << conversations, participants, messages, keyTables, now, history >>

ListInvites(s, identity, c) ==
  /\ Free(s)
  /\ LET r == InviteRequest("inv.list", identity, c, "findMany") IN
     reqs' = [reqs EXCEPT ![s] =
       IF c = NoId THEN Resp(r, 400) ELSE Checked(r, InviteListCheck(c, identity))]
  /\ UNCHANGED << convTables, keyTables, ids, now, history >>

\* Lines 425-432: the invites of the conversation that are not revoked.
ListInvitesFindMany(s) ==
  /\ At(s, "inv.list", "findMany")
  /\ reqs' = [reqs EXCEPT ![s] =
       Resp(@, 200) @@ [invites |-> {i \in InviteIds :
                                       /\ invites[i] # NoRow
                                       /\ invites[i].conversationId = @.conv
                                       /\ invites[i].revokedAt = NoTime}]]
  /\ UNCHANGED << convTables, keyTables, ids, now, history >>

(***************************************************************************)
(* GET, POST, DELETE /api/invites/:id (src/app/api/invites/[id]/route.ts,  *)
(* lines 1-214): preview, redeem, revoke.                                  *)
(***************************************************************************)
\* Lines 26-38 and 100-111 on the row read: 410, or 0 when the invite passes.
\* expired is expiresAt < now; exhausted is usedCount >= maxUses.
InviteGate(invite) ==
  IF invite.revokedAt # NoTime THEN 410
  ELSE IF invite.expiresAt # NoTime /\ invite.expiresAt < now THEN 410
  ELSE IF invite.maxUses # NoMax /\ invite.usedCount >= invite.maxUses THEN 410
  ELSE 0

InviteResp(r, status) ==
  [pc |-> "done", op |-> r.op, who |-> r.who, invite |-> r.invite, status |-> status]

\* Lines 17-38.
PreviewInvite(s, i) ==
  /\ Free(s)
  /\ LET r == [pc |-> "findConv", op |-> "inv.preview", who |-> Null, invite |-> i] IN
     reqs' = [reqs EXCEPT ![s] =
       IF invites[i] = NoRow THEN InviteResp(r, 404)
       ELSE IF InviteGate(invites[i]) # 0 THEN InviteResp(r, InviteGate(invites[i]))
       ELSE r @@ [conv |-> invites[i].conversationId]]
  /\ UNCHANGED << convTables, keyTables, ids, now, history >>

\* Lines 41-68: the conversation, and the count of its participants.
PreviewFindConv(s) ==
  /\ At(s, "inv.preview", "findConv")
  /\ reqs' = [reqs EXCEPT ![s] =
       InviteResp(@, IF conversations[@.conv] = NoRow THEN 404 ELSE 200)]
  /\ UNCHANGED << convTables, keyTables, ids, now, history >>

\* A handler that lets anyone redeem an invite issued for one identity.
RedeemInviteAnyone(s, identity, i) ==
  /\ Free(s)
  /\ MessageRoom
  /\ LET r == [pc |-> "findExisting", op |-> "inv.redeem", who |-> identity,
               invite |-> i]
         invite == invites[i] IN
     reqs' = [reqs EXCEPT ![s] =
       IF invite = NoRow THEN InviteResp(r, 404)
       ELSE IF InviteGate(invite) # 0 THEN InviteResp(r, InviteGate(invite))
       ELSE r @@ [conv |-> invite.conversationId, createdBy |-> invite.createdBy,
                  usedCount |-> invite.usedCount]]
  /\ UNCHANGED << convTables, keyTables, ids, now, history >>

\* Lines 92-116: the invite row, its gate, and forDid.  The handler keeps the
\* row it read.
RedeemInvite(s, identity, i) ==
  /\ Free(s)
  /\ MessageRoom
  /\ LET r == [pc |-> "findExisting", op |-> "inv.redeem", who |-> identity,
               invite |-> i]
         invite == invites[i] IN
     reqs' = [reqs EXCEPT ![s] =
       IF invite = NoRow THEN InviteResp(r, 404)
       ELSE IF InviteGate(invite) # 0 THEN InviteResp(r, InviteGate(invite))
       ELSE IF invite.forDid # Null /\ invite.forDid # identity THEN InviteResp(r, 403)
       ELSE r @@ [conv |-> invite.conversationId, createdBy |-> invite.createdBy,
                  usedCount |-> invite.usedCount]]
  /\ UNCHANGED << convTables, keyTables, ids, now, history >>

\* A handler that counts the use of an invite by a member too.
RedeemFindExistingCounts(s) ==
  /\ At(s, "inv.redeem", "findExisting")
  /\ LET r == reqs[s]
         existing == Participant(r.conv, r.who) # NoRow IN
     /\ reqs' = [reqs EXCEPT ![s] =
          IF existing THEN InviteResp(r, 200) @@ [alreadyMember |-> TRUE]
          ELSE [r EXCEPT !.pc = "insert"]]
     /\ invites' =
          IF existing /\ invites[r.invite] # NoRow
          THEN [invites EXCEPT ![r.invite] = [@ EXCEPT !.usedCount = @ + 1]]
          ELSE invites
  /\ UNCHANGED << conversations, participants, messages, keyTables, ids, now, history >>

\* Lines 119-131.
RedeemFindExisting(s) ==
  /\ At(s, "inv.redeem", "findExisting")
  /\ reqs' = [reqs EXCEPT ![s] =
       IF Participant(@.conv, @.who) # NoRow
       THEN InviteResp(@, 200) @@ [alreadyMember |-> TRUE]
       ELSE [@ EXCEPT !.pc = "insert"]]
  /\ UNCHANGED << convTables, keyTables, ids, now, history >>

\* Lines 134-139: role member, invitedBy the creator of the invite.
RedeemInsert(s) ==
  /\ At(s, "inv.redeem", "insert")
  /\ LET r == reqs[s] IN
     IF conversations[r.conv] = NoRow \/ Participant(r.conv, r.who) # NoRow
     THEN /\ reqs' = [reqs EXCEPT ![s] = InviteResp(r, 500)]
          /\ UNCHANGED << participants, joinedVia >>
     ELSE /\ participants' = [participants EXCEPT ![<<r.conv, r.who>>] =
               ParticipantRow("member", r.createdBy)]
          /\ joinedVia' = [joinedVia EXCEPT ![r.invite] = @ + 1]
          /\ reqs' = [reqs EXCEPT ![s] = [r EXCEPT !.pc = "count"]]
  /\ UNCHANGED << conversations, messages, invites, keyTables, ids, now, handedOut >>

\* Lines 142-145: usedCount becomes the count read at line 92 plus one.
RedeemCount(s) ==
  /\ At(s, "inv.redeem", "count")
  /\ LET r == reqs[s] IN
     /\ invites' =
          IF invites[r.invite] = NoRow THEN invites
          ELSE [invites EXCEPT ![r.invite] = [@ EXCEPT !.usedCount = r.usedCount + 1]]
     /\ reqs' = [reqs EXCEPT ![s] = [r EXCEPT !.pc = "insertMessage"]]
  /\ UNCHANGED << conversations, participants, messages, keyTables, ids, now, history >>

\* Lines 148-159.
RedeemInsertMessage(s) ==
  /\ At(s, "inv.redeem", "insertMessage")
  /\ MessageRoom
  /\ LET r == reqs[s] IN
     IF conversations[r.conv] = NoRow
     THEN /\ reqs' = [reqs EXCEPT ![s] = InviteResp(r, 500)]
          /\ UNCHANGED << messages, ids >>
     ELSE /\ InsertMessage(MessageRow(r.conv, r.who, SystemContent("joined", r.who),
                                      "system", NoId))
          /\ reqs' = [reqs EXCEPT ![s] = InviteResp(r, 200) @@ [joined |-> TRUE]]
  /\ UNCHANGED << conversations, participants, invites, keyTables, now, history >>

\* Lines 182-188: the invite row; its creator needs no further check.
RevokeInvite(s, identity, i) ==
  /\ Free(s)
  /\ LET r == [pc |-> "update", op |-> "inv.revoke", who |-> identity, invite |-> i] IN
     reqs' = [reqs EXCEPT ![s] =
       IF invites[i] = NoRow THEN InviteResp(r, 404)
       ELSE IF invites[i].createdBy # identity
       THEN [r EXCEPT !.pc = "findParticipant"] @@ [conv |-> invites[i].conversationId]
       ELSE r]
  /\ UNCHANGED << convTables, keyTables, ids, now, history >>

\* Lines 192-202: anyone else must be admin or above in the conversation.
RevokeFindParticipant(s) ==
  /\ At(s, "inv.revoke", "findParticipant")
  /\ LET r == reqs[s]
         participant == Participant(r.conv, r.who) IN
     reqs' = [reqs EXCEPT ![s] =
       IF participant = NoRow \/ ~hasRole(participant.role, "admin")
       THEN InviteResp(r, 403)
       ELSE [r EXCEPT !.pc = "update"]]
  /\ UNCHANGED << convTables, keyTables, ids, now, history >>

\* Lines 204-209: revokedAt becomes the time of the call.
RevokeUpdate(s) ==
  /\ At(s, "inv.revoke", "update")
  /\ LET r == reqs[s] IN
     /\ invites' =
          IF invites[r.invite] = NoRow THEN invites
          ELSE [invites EXCEPT ![r.invite] = [@ EXCEPT !.revokedAt = now]]
     /\ reqs' = [reqs EXCEPT ![s] = InviteResp(r, 200)]
  /\ UNCHANGED << conversations, participants, messages, keyTables, ids, now, history >>

\* Time passes.
Tick ==
  /\ now < MaxTime
  /\ now' = now + 1
  /\ UNCHANGED << convTables, keyTables, ids, reqs, history >>

(***************************************************************************)
(* POST /api/keys (src/app/api/keys/route.ts): upload or replace the       *)
(* caller's bundle and add one-time pre-keys.                              *)
(***************************************************************************)
\* body: bundle is Null when a required field is missing; n one-time pre-keys.
StartUploadKeys(s, identity, bundle, n) ==
  /\ Free(s)
  /\ reqs' = [reqs EXCEPT ![s] =
       IF bundle = Null
       THEN [pc |-> "done", op |-> "keys.upload", who |-> identity, status |-> 400]
       ELSE [pc |-> "upsert", op |-> "keys.upload", who |-> identity,
             bundle |-> bundle, n |-> n,
             existing |-> publicKeys[identity] # NoRow]]
  /\ UNCHANGED << convTables, keyTables, ids, now, history >>

UploadDone(r) ==
  [pc |-> "done", op |-> "keys.upload", who |-> r.who, status |-> 200]

UploadFailed(r) ==
  [pc |-> "done", op |-> "keys.upload", who |-> r.who, status |-> 500]

\* update ... where did = identity, or insert: the primary key refuses a second row.
UploadUpsert(s) ==
  /\ At(s, "keys.upload", "upsert")
  /\ LET r == reqs[s] IN
     IF ~r.existing /\ publicKeys[r.who] # NoRow
     THEN /\ reqs' = [reqs EXCEPT ![s] = UploadFailed(r)]
          /\ UNCHANGED publicKeys
     ELSE /\ publicKeys' =
               IF r.existing /\ publicKeys[r.who] = NoRow
               THEN publicKeys
               ELSE [publicKeys EXCEPT ![r.who] = [row |-> TRUE, bundle |-> r.bundle]]
          /\ reqs' = [reqs EXCEPT ![s] =
               IF r.n = 0 THEN UploadDone(r) ELSE [r EXCEPT !.pc = "preKeys"]]
  /\ UNCHANGED << convTables, preKeys, ids, now, history >>

\* One turn of the loop over oneTimePreKeys: insert a pre-key, used = false.
UploadPreKey(s) ==
  /\ At(s, "keys.upload", "preKeys")
  /\ ids.pk < MaxPreKeys
  /\ LET r == reqs[s]
         id == generateId("pk") IN
     IF publicKeys[r.who] = NoRow
     THEN \* the foreign key to public_keys refuses the row
          /\ reqs' = [reqs EXCEPT ![s] = UploadFailed(r)]
          /\ UNCHANGED << preKeys, ids >>
     ELSE /\ preKeys' = [preKeys EXCEPT ![id] =
               [row |-> TRUE, did |-> r.who, used |-> FALSE]]
          /\ ids' = [ids EXCEPT !.pk = id]
          /\ reqs' = [reqs EXCEPT ![s] =
               IF r.n = 1 THEN UploadDone(r) ELSE [r EXCEPT !.n = r.n - 1]]
  /\ UNCHANGED << convTables, publicKeys, now, history >>

(***************************************************************************)
(* GET /api/keys/:did (src/app/conversations/[id]/page.tsx, lines          *)
(* 352-397): the bundle of did and one of its pre-keys.                    *)
(***************************************************************************)
FetchDone(status, key) ==
  [pc |-> "done", op |-> "keys.fetch", status |-> status, oneTimePreKey |-> key]

\* The rows findFirst({where: eq(preKeys.did, did)}) may return: the query
\* names no order and does not filter on used.
PreKeyCandidates(did) ==
  {k \in PreKeyIds : preKeys[k] # NoRow /\ preKeys[k].did = did}

\* isValidDid, then findFirst on public_keys.
StartFetchKeys(s, did) ==
  /\ Free(s)
  /\ \A k \in PreKeyIds : handedOut[k] < MaxHandOut
  /\ reqs' = [reqs EXCEPT ![s] =
       IF ~isValidDid(did) THEN FetchDone(400, NoId)
       ELSE IF publicKeys[did] = NoRow THEN FetchDone(404, NoId)
       ELSE [pc |-> "preKey", op |-> "keys.fetch", did |-> did]]
  /\ UNCHANGED << convTables, keyTables, ids, now, history >>

\* The response: oneTimePreKey: oneTimeKey?.key || null.
FetchRespond(s, key) ==
  /\ reqs' = [reqs EXCEPT ![s] = FetchDone(200, key)]
  /\ handedOut' = IF key = NoId THEN handedOut
                  ELSE [handedOut EXCEPT ![key] = @ + 1]
  /\ UNCHANGED joinedVia

\* findFirst on pre_keys; a row that is already used is returned as it is.
FetchPreKey(s) ==
  /\ At(s, "keys.fetch", "preKey")
  /\ LET cands == PreKeyCandidates(reqs[s].did) IN
     IF cands = {}
     THEN FetchRespond(s, NoId)
     ELSE \E k \in cands :
            IF preKeys[k].used
            THEN FetchRespond(s, k)
            ELSE /\ reqs' = [reqs EXCEPT ![s] = [@ EXCEPT !.pc = "mark"] @@ [key |-> k]]
                 /\ UNCHANGED history
  /\ UNCHANGED << convTables, keyTables, ids, now >>

\* update pre_keys set used = true where id = oneTimeKey.id
FetchMark(s) ==
  /\ At(s, "keys.fetch", "mark")
  /\ preKeys' = [preKeys EXCEPT ![reqs[s].key] = [@ EXCEPT !.used = TRUE]]
  /\ FetchRespond(s, reqs[s].key)
  /\ UNCHANGED << convTables, publicKeys, ids, now >>

(***************************************************************************)
(* requireAuth (src/app/api/invites/[id]/route.ts, lines 275-301), the     *)
(* first statement of every handler but the preview of an invite.          *)
(***************************************************************************)
\* The Authorization header: none that starts with "Bearer ", or a token.
HeaderInputs == {"none", "bearer"}

\* What the call to the verifier comes to: it accepts the token; it rejects
\* it as invalid or expired; it answers with a failure of its own (5xx); its
\* answer is ok but cannot be parsed; it cannot be reached.
VerifierOutcomes == {"accepts", "rejects", "fails", "garbled", "unreachable"}

\* 0 when an identity is returned, or the status of the error.  fetch throws
\* when the verifier cannot be reached and response.json() on a body that is
\* no JSON: the catch answers 503; every answer that is not ok gives 401.
requireAuth(header, verifier) ==
  IF header # "bearer" THEN 401
  ELSE IF verifier \in {"unreachable", "garbled"} THEN 503
  ELSE IF verifier # "accepts" THEN 401
  ELSE 0

\* The operations whose handlers start with requireAuth.
AuthOps ==
  {"conv.create", "conv.get", "conv.update", "conv.delete", "part.list",
   "part.add", "part.setRole", "part.remove", "msg.list", "msg.send",
   "inv.create", "inv.list", "inv.redeem", "inv.revoke", "keys.upload"}

\* if ('error' in authResult) return errorResponse(authResult.error,
\* authResult.status): the handler ends before it reads the store.
RefuseAuth(s, op, header, verifier) ==
  /\ Free(s)
  /\ requireAuth(header, verifier) # 0
  /\ reqs' = [reqs EXCEPT ![s] =
       [pc |-> "done", op |-> op, status |-> requireAuth(header, verifier)]]
  /\ UNCHANGED << convTables, keyTables, ids, now, history >>

(***************************************************************************)
(* Inputs of the requests.                                                 *)
(***************************************************************************)
\* participantDids: the lists of at most two dids, and one with a malformed did.
DidLists ==
  {<< >>} \cup {<<d>> : d \in DIDs \cup {BadDid}} \cup {<<d, e>> : d, e \in DIDs}

TypeInputs == {"direct", "group", "channel"}

NameInputs == {Null, "n"}

DidInputs == DIDs \cup {BadDid}

\* The identities that ask for new conversations.
Creators == {"a", "b"}

\* Where the messages are not what is looked at, a request whose handler
\* writes a message arrives only while few have been written.
FewMessages == ids.msg < MaxFewMsgs

(***************************************************************************)
(* Conversations and membership, one request at a time: a request arrives  *)
(* in slot 1 when the one before it has been answered.                     *)
(***************************************************************************)
Next ==
  \/ \E identity \in Creators, type \in TypeInputs, name \in NameInputs,
        dids \in DidLists :
       (type = "group" => FewMessages) /\ StartCreate(1, identity, type, name, dids)
  \/ CreateFindExisting(1)
  \/ ids.conv < MaxSeqConvs /\ CreateInsertConv(1)
  \/ CreateInsertOwner(1)
  \/ CreateInsertMember(1)
  \/ CreateInsertMessage(1)
  \/ \E identity \in DIDs, c \in ConvIds : GetConversation(1, identity, c)
  \/ GetFindConv(1)
  \/ \E identity \in DIDs, c \in ConvIds, name \in NameInputs :
       UpdateConversation(1, identity, c, name)
  \/ UpdateWrite(1)
  \/ \E identity \in DIDs, c \in ConvIds : DeleteConversation(1, identity, c)
  \/ DeleteCascade(1)
  \/ \E identity \in DIDs, c \in ConvIds : ListParticipants(1, identity, c)
  \/ ListFindMany(1)
  \/ \E identity \in DIDs, c \in ConvIds, did \in DidInputs, role \in RoleInputs :
       FewMessages /\ AddParticipant(1, identity, c, did, role)
  \/ AddFindExisting(1)
  \/ AddInsert(1)
  \/ AddInsertMessage(1)
  \/ \E identity \in DIDs, c \in ConvIds, did \in DidInputs, role \in RoleInputs :
       FewMessages /\ SetRole(1, identity, c, did, role)
  \/ SetRoleUpdate(1)
  \/ SetRoleInsertMessage(1)
  \/ \E identity \in DIDs, c \in ConvIds, did \in DidInputs :
       FewMessages /\ RemoveParticipant(1, identity, c, did)
  \/ RemoveFindTarget(1)
  \/ RemoveDelete(1)
  \/ RemoveInsertMessage(1)
  \/ Deliver(1)

Spec == Init /\ [][Next]_vars

(***************************************************************************)
(* Access to one conversation: "a" creates it, and then every operation    *)
(* that names a conversation is asked for by members and by others, for    *)
(* that conversation and for an id that names none, one request at a time. *)
(***************************************************************************)
NextAccess ==
  \/ \E type \in {"direct", "group"} :
       (type = "group" => FewMessages) /\ StartCreate(1, "a", type, "n", <<"b">>)
  \/ CreateFindExisting(1)
  \/ ids.conv < MaxSeqConvs /\ CreateInsertConv(1)
  \/ CreateInsertOwner(1)
  \/ CreateInsertMember(1)
  \/ CreateInsertMessage(1)
  \/ \E identity \in DIDs, c \in ConvIds : GetConversation(1, identity, c)
  \/ GetFindConv(1)
  \/ \E identity \in DIDs, c \in ConvIds : UpdateConversation(1, identity, c, "n")
  \/ UpdateWrite(1)
  \/ \E identity \in DIDs, c \in ConvIds : DeleteConversation(1, identity, c)
  \/ DeleteCascade(1)
  \/ \E identity \in DIDs, c \in ConvIds : ListParticipants(1, identity, c)
  \/ ListFindMany(1)
  \/ \E identity \in DIDs, c \in ConvIds, did \in DidInputs, role \in RoleInputs :
       FewMessages /\ AddParticipant(1, identity, c, did, role)
  \/ AddFindExisting(1)
  \/ AddInsert(1)
  \/ AddInsertMessage(1)
  \/ \E identity \in DIDs, c \in ConvIds, did \in DidInputs, role \in RoleInputs :
       FewMessages /\ SetRole(1, identity, c, did, role)
  \/ SetRoleUpdate(1)
  \/ SetRoleInsertMessage(1)
  \/ \E identity \in DIDs, c \in ConvIds, did \in DidInputs :
       FewMessages /\ RemoveParticipant(1, identity, c, did)
  \/ RemoveFindTarget(1)
  \/ RemoveDelete(1)
  \/ RemoveInsertMessage(1)
  \/ \E identity \in DIDs, c \in ConvIds, before \in {NoId, 1} :
       ListMessages(1, identity, c, DefaultLimit, before)
  \/ ListFindCursor(1)
  \/ ListQuery(1)
  \/ \E identity \in DIDs, c \in ConvIds, content \in ContentInputs,
        replyTo \in {NoId, 1} :
       FewMessages /\ SendMessage(1, identity, c, content, replyTo)
  \/ SendFindReply(1)
  \/ SendInsert(1)
  \/ SendTouch(1)
  \/ \E identity \in DIDs, c \in ConvIds \cup {NoId}, maxUses \in {NoMax, 1} :
       CreateInvite(1, identity, c, Null, maxUses, NoHours)
  \/ InviteInsert(1)
  \/ \E identity \in DIDs, c \in ConvIds \cup {NoId} : ListInvites(1, identity, c)
  \/ ListInvitesFindMany(1)
  \/ Deliver(1)

SpecAccess == Init /\ [][NextAccess]_vars

(***************************************************************************)
(* Creation alone, with requests in flight together: first contact between *)
(* identities, asked for from both sides or twice from one.                *)
(***************************************************************************)
NextCreate ==
  \/ \E s \in Slots, identity \in Creators, type \in {"direct", "group"},
        did \in DIDs :
       StartCreate(s, identity, type, "n", <<did>>)
  \/ \E s \in Slots : CreateFindExisting(s)
  \/ \E s \in Slots : CreateInsertConv(s)
  \/ \E s \in Slots : CreateInsertOwner(s)
  \/ \E s \in Slots : CreateInsertMember(s)
  \/ \E s \in Slots : CreateInsertMessage(s)
  \/ \E s \in Slots : Deliver(s)

SpecCreate == Init /\ [][NextCreate]_vars

(***************************************************************************)
(* Invites of one group: "a" creates a group of its own; invites are       *)
(* issued, previewed, redeemed and revoked with requests in flight         *)
(* together, while time passes.                                            *)
(***************************************************************************)
\* The slots are alike: a request takes slot 1 when it is free.
Takes(s) == s = 1 \/ ~Free(1)

MaxUsesInputs == {NoMax} \cup (0 .. MaxUses)

HoursInputs == {NoHours} \cup (0 .. MaxHours)

NextInvite ==
  \/ StartCreate(1, "a", "group", "n", <<"a">>)
  \/ ids.conv < MaxSeqConvs /\ CreateInsertConv(1)
  \/ CreateInsertOwner(1)
  \/ CreateInsertMessage(1)
  \/ \E s \in Slots, identity \in {"a", "c"}, forDid \in {Null, "c"},
        maxUses \in MaxUsesInputs, expiresInHours \in HoursInputs :
       Takes(s) /\ CreateInvite(s, identity, 1, forDid, maxUses, expiresInHours)
  \/ \E s \in Slots : InviteInsert(s)
  \/ \E s \in Slots, i \in InviteIds : Takes(s) /\ PreviewInvite(s, i)
  \/ \E s \in Slots : PreviewFindConv(s)
  \/ \E s \in Slots, identity \in DIDs, i \in InviteIds :
       Takes(s) /\ FewMessages /\ RedeemInvite(s, identity, i)
  \/ \E s \in Slots : RedeemFindExisting(s)
  \/ \E s \in Slots : RedeemInsert(s)
  \/ \E s \in Slots : RedeemCount(s)
  \/ \E s \in Slots : RedeemInsertMessage(s)
  \/ \E s \in Slots, identity \in {"a", "c"}, i \in InviteIds :
       Takes(s) /\ RevokeInvite(s, identity, i)
  \/ \E s \in Slots : RevokeFindParticipant(s)
  \/ \E s \in Slots : RevokeUpdate(s)
  \/ \E s \in Slots : Deliver(s)
  \/ now < MaxInviteTime /\ Tick

SpecInvite == Init /\ [][NextInvite]_vars

(***************************************************************************)
(* Adding participants with requests in flight together: "a" creates a     *)
(* direct conversation with "b"; the owner "a" and the member "b" ask to   *)
(* add "c", in one role or another.                                        *)
(***************************************************************************)
NextAdd ==
  \/ StartCreate(1, "a", "direct", "n", <<"b">>)
  \/ CreateFindExisting(1)
  \/ ids.conv < MaxSeqConvs /\ CreateInsertConv(1)
  \/ CreateInsertOwner(1)
  \/ CreateInsertMember(1)
  \/ \E s \in Slots, identity \in {"a", "b"}, role \in {"member", "admin"} :
       Takes(s) /\ FewMessages /\ AddParticipant(s, identity, 1, "c", role)
  \/ \E s \in Slots : AddFindExisting(s)
  \/ \E s \in Slots : AddInsert(s)
  \/ \E s \in Slots : AddInsertMessage(s)
  \/ \E s \in Slots : Deliver(s)

SpecAdd == Init /\ [][NextAdd]_vars

(***************************************************************************)
(* The messages of one conversation: "a" creates a direct conversation     *)
(* with "b" and sends messages while time passes; the participant "a" and  *)
(* the outsider "c" ask for pages of them, one request at a time.          *)
(***************************************************************************)
\* limit: small pages, none given, more than the cap, and none at all.
PageLimits == LimitInputs \cup {LimitCap + DefaultLimit, 0}

NextMessages ==
  \/ StartCreate(1, "a", "direct", "n", <<"b">>)
  \/ CreateFindExisting(1)
  \/ ids.conv < MaxSeqConvs /\ CreateInsertConv(1)
  \/ CreateInsertOwner(1)
  \/ CreateInsertMember(1)
  \/ \E identity \in {"a", "c"} :
       SendMessage(1, identity, 1, [encrypted |-> "e"], NoId)
  \/ SendInsert(1)
  \/ SendTouch(1)
  \/ \E identity \in {"a", "c"}, limit \in PageLimits, before \in MsgIds \cup {NoId} :
       ListMessages(1, identity, 1, limit, before)
  \/ ListFindCursor(1)
  \/ ListQuery(1)
  \/ Deliver(1)
  \/ Tick

SpecMessages == Init /\ [][NextMessages]_vars

(***************************************************************************)
(* Deleting a conversation while others write to it: "a" creates a group   *)
(* with "b" and issues an invite; the owner "a" and the member "b" ask to  *)
(* delete the group while "a" adds "c", "b" sends a message and "c"        *)
(* redeems the invite, with requests in flight together.                   *)
(***************************************************************************)
NextDelete ==
  \/ StartCreate(1, "a", "group", "n", <<"b">>)
  \/ ids.conv < MaxSeqConvs /\ CreateInsertConv(1)
  \/ CreateInsertOwner(1)
  \/ CreateInsertMember(1)
  \/ CreateInsertMessage(1)
  \/ \E s \in Slots : Takes(s) /\ CreateInvite(s, "a", 1, Null, NoMax, NoHours)
  \/ \E s \in Slots : InviteInsert(s)
  \/ \E s \in Slots, identity \in {"a", "b"} :
       Takes(s) /\ DeleteConversation(s, identity, 1)
  \/ \E s \in Slots : DeleteCascade(s)
  \/ \E s \in Slots : Takes(s) /\ AddParticipant(s, "a", 1, "c", "member")
  \/ \E s \in Slots : AddFindExisting(s)
  \/ \E s \in Slots : AddInsert(s)
  \/ \E s \in Slots : AddInsertMessage(s)
  \/ \E s \in Slots : Takes(s) /\ SendMessage(s, "b", 1, [encrypted |-> "e"], NoId)
  \/ \E s \in Slots : SendInsert(s)
  \/ \E s \in Slots : SendTouch(s)
  \/ \E s \in Slots : Takes(s) /\ RedeemInvite(s, "c", 1)
  \/ \E s \in Slots : RedeemFindExisting(s)
  \/ \E s \in Slots : RedeemInsert(s)
  \/ \E s \in Slots : RedeemCount(s)
  \/ \E s \in Slots : RedeemInsertMessage(s)
  \/ \E s \in Slots : Deliver(s)

SpecDelete == Init /\ [][NextDelete]_vars

(***************************************************************************)
(* Replies: "a" opens direct conversations with "b" and with "c", sends    *)
(* messages to them that reply to any message id or to none, and deletes   *)
(* them, with requests in flight together.                                 *)
(***************************************************************************)
NextReply ==
  \/ \E did \in {"b", "c"} :
       ids.conv < MaxConvs /\ StartCreate(1, "a", "direct", "n", <<did>>)
  \/ CreateFindExisting(1)
  \/ CreateInsertConv(1)
  \/ CreateInsertOwner(1)
  \/ CreateInsertMember(1)
  \/ \E s \in Slots, c \in ConvIds, replyTo \in MsgIds \cup {NoId} :
       Takes(s) /\ SendMessage(s, "a", c, [encrypted |-> "e"], replyTo)
  \/ \E s \in Slots : SendFindReply(s)
  \/ \E s \in Slots : SendInsert(s)
  \/ \E s \in Slots : SendTouch(s)
  \/ \E s \in Slots, c \in ConvIds : Takes(s) /\ DeleteConversation(s, "a", c)
  \/ \E s \in Slots : DeleteCascade(s)
  \/ \E s \in Slots : Deliver(s)

SpecReply == Init /\ [][NextReply]_vars

(***************************************************************************)
(* Redemptions in flight together: "a" creates a group and issues an       *)
(* invite without a limit of uses; "b", "c" and "d" redeem it, anyone       *)
(* previews it and "a" revokes it.                                         *)
(***************************************************************************)
NextRedeem ==
  \/ StartCreate(1, "a", "group", "n", <<"a">>)
  \/ ids.conv < MaxSeqConvs /\ CreateInsertConv(1)
  \/ CreateInsertOwner(1)
  \/ CreateInsertMessage(1)
  \/ \E s \in Slots : Takes(s) /\ CreateInvite(s, "a", 1, Null, NoMax, NoHours)
  \/ \E s \in Slots : InviteInsert(s)
  \/ \E s \in Slots, i \in InviteIds : Takes(s) /\ PreviewInvite(s, i)
  \/ \E s \in Slots : PreviewFindConv(s)
  \/ \E s \in Slots, identity \in Identities \ {"a"}, i \in InviteIds :
       Takes(s) /\ RedeemInvite(s, identity, i)
  \/ \E s \in Slots : RedeemFindExisting(s)
  \/ \E s \in Slots : RedeemInsert(s)
  \/ \E s \in Slots : RedeemCount(s)
  \/ \E s \in Slots : RedeemInsertMessage(s)
  \/ \E s \in Slots, i \in InviteIds : Takes(s) /\ RevokeInvite(s, "a", i)
  \/ \E s \in Slots : RevokeUpdate(s)
  \/ \E s \in Slots : Deliver(s)

SpecRedeem == Init /\ [][NextRedeem]_vars

(***************************************************************************)
(* Members of one group, with requests in flight together: "a" creates a   *)
(* group with "b" and "c"; the owner "a" sets the roles of "b" and "c" and *)
(* removes them, while "b" removes "c", leaves, and sends messages.        *)
(***************************************************************************)
NextMembers ==
  \/ StartCreate(1, "a", "group", "n", <<"b", "c">>)
  \/ ids.conv < MaxSeqConvs /\ CreateInsertConv(1)
  \/ CreateInsertOwner(1)
  \/ CreateInsertMember(1)
  \/ CreateInsertMessage(1)
  \/ \E s \in Slots, did \in {"b", "c"}, role \in {"readonly", "member", "admin"} :
       Takes(s) /\ SetRole(s, "a", 1, did, role)
  \/ \E s \in Slots : SetRoleUpdate(s)
  \/ \E s \in Slots : SetRoleInsertMessage(s)
  \/ \E s \in Slots, identity \in {"a", "b"}, did \in {"b", "c"} :
       Takes(s) /\ RemoveParticipant(s, identity, 1, did)
  \/ \E s \in Slots : RemoveFindTarget(s)
  \/ \E s \in Slots : RemoveDelete(s)
  \/ \E s \in Slots : RemoveInsertMessage(s)
  \/ \E s \in Slots : Takes(s) /\ SendMessage(s, "b", 1, [encrypted |-> "e"], NoId)
  \/ \E s \in Slots : SendInsert(s)
  \/ \E s \in Slots : SendTouch(s)
  \/ \E s \in Slots : Deliver(s)

SpecMembers == Init /\ [][NextMembers]_vars

(***************************************************************************)
(* Two conversations and their pages: "a" opens direct conversations with  *)
(* "b" and with "c", sends messages to them while time passes, and asks    *)
(* for pages of either with before naming any message id, one request at a *)
(* time.                                                                   *)
(***************************************************************************)
NextPages ==
  \/ \E did \in {"b", "c"} :
       ids.conv < MaxConvs /\ StartCreate(1, "a", "direct", "n", <<did>>)
  \/ CreateFindExisting(1)
  \/ CreateInsertConv(1)
  \/ CreateInsertOwner(1)
  \/ CreateInsertMember(1)
  \/ \E c \in ConvIds : SendMessage(1, "a", c, [encrypted |-> "e"], NoId)
  \/ SendInsert(1)
  \/ SendTouch(1)
  \/ \E c \in ConvIds, limit \in {1, DefaultLimit}, before \in MsgIds \cup {NoId} :
       ListMessages(1, "a", c, limit, before)
  \/ ListFindCursor(1)
  \/ ListQuery(1)
  \/ Deliver(1)
  \/ Tick

SpecPages == Init /\ [][NextPages]_vars

(***************************************************************************)
(* Authentication: requests with and without a token arrive while the      *)
(* verifier accepts, rejects, fails or cannot be reached; those that are    *)
(* given an identity ask for a conversation to be created.                 *)
(***************************************************************************)
NextAuth ==
  \/ \E s \in Slots, op \in AuthOps, header \in HeaderInputs,
        verifier \in VerifierOutcomes :
       Takes(s) /\ RefuseAuth(s, op, header, verifier)
  \/ \E s \in Slots, identity \in Creators, did \in DIDs :
       /\ Takes(s)
       /\ requireAuth("bearer", "accepts") = 0
       /\ StartCreate(s, identity, "direct", "n", <<did>>)
  \/ \E s \in Slots : CreateFindExisting(s)
  \/ \E s \in Slots : ids.conv < MaxSeqConvs /\ CreateInsertConv(s)
  \/ \E s \in Slots : CreateInsertOwner(s)
  \/ \E s \in Slots : CreateInsertMember(s)
  \/ \E s \in Slots : Deliver(s)

SpecAuth == Init /\ [][NextAuth]_vars

(***************************************************************************)
(* The key directory alone.                                                *)
(***************************************************************************)
NextKeys ==
  \/ \E s \in Slots, d \in {"a", "b"}, b \in Bundles \cup {Null}, n \in 0 .. MaxPreKeys :
       StartUploadKeys(s, d, b, n)
  \/ \E s \in Slots : UploadUpsert(s)
  \/ \E s \in Slots : UploadPreKey(s)
  \/ \E s \in Slots, d \in {"a", "b", BadDid} : StartFetchKeys(s, d)
  \/ \E s \in Slots : FetchPreKey(s)
  \/ \E s \in Slots : FetchMark(s)
  \/ \E s \in Slots : Deliver(s)

SpecKeys == Init /\ [][NextKeys]_vars

(***************************************************************************)
(* Properties.                                                             *)
(***************************************************************************)
\* A request arrives in slot s with this step.
Arrives(s) == reqs[s].pc = "idle" /\ reqs'[s].pc # "idle"

\* The answer in slot s, when it is the answer to a request that names a
\* conversation.
Answered(s) == reqs[s].pc = "done" /\ "member" \in DOMAIN reqs[s]

(***************************************************************************)
(* C1. Pre-key exclusivity: every stored one-time pre-key is returned as   *)
(* oneTimePreKey by at most one fetch.                                     *)
(***************************************************************************)
C1_PreKeyExclusive == \A k \in PreKeyIds : handedOut[k] <= 1

(***************************************************************************)
(* C2. Invite use bound: an invite with maxUses = n creates at most n      *)
(* memberships, whatever the interleaving of its redeem calls.             *)
(***************************************************************************)
C2_InviteUseBound ==
  \A i \in InviteIds :
    invites[i] # NoRow /\ invites[i].maxUses # NoMax
      => joinedVia[i] <= invites[i].maxUses

(***************************************************************************)
(* C3. At most one direct conversation per pair: no two conversations of   *)
(* type direct have both A and B among their participants, for distinct A  *)
(* and B, also when creates run together.                                  *)
(***************************************************************************)
DirectBetween(A, B) ==
  {c \in ConvIds : /\ conversations[c] # NoRow
                   /\ conversations[c].type = "direct"
                   /\ {A, B} \subseteq ParticipantsOf(c)}

C3_OneDirectPerPair ==
  \A A, B \in DIDs : A # B => Cardinality(DirectBetween(A, B)) <= 1

(***************************************************************************)
(* C4. Idempotent direct creation, one request at a time: when a direct    *)
(* conversation between A and B exists, create(direct) by A naming B finds *)
(* such a conversation, answers with its id and existing = true, and       *)
(* inserts no conversation, participant or message row.                    *)
(***************************************************************************)
C4_IdempotentDirect ==
  [][/\ \A A \in Creators, B \in DIDs, name \in NameInputs :
          (DirectBetween(A, B) # {} /\ StartCreate(1, A, "direct", name, <<B>>))
            => /\ reqs'[1].pc = "findExisting"
               /\ reqs'[1].conv \in DirectBetween(A, B)
     /\ At(1, "conv.create", "findExisting")
          => /\ reqs'[1] = CreateResp(reqs[1], 200, TRUE, reqs[1].conv)
             /\ UNCHANGED << convTables, ids >>]_vars

\* "b" asked for a direct conversation with "a" and got the one "a" had created.
C4_Witness ==
  /\ reqs[1].pc = "done" /\ reqs[1].op = "conv.create"
  /\ reqs[1].existing /\ reqs[1].who = "b"
  /\ reqs[1].conv \in DirectBetween("a", "b")
  /\ conversations[reqs[1].conv].createdBy = "a"

(***************************************************************************)
(* C5. Exactly one owner: whenever no request is in the middle of its      *)
(* statements, every conversation has exactly one participant of role      *)
(* owner.                                                                  *)
(***************************************************************************)
C5_ExactlyOneOwner ==
  Quiescent =>
    \A c \in ConvIds : conversations[c] # NoRow => Cardinality(Owners(c)) = 1

(***************************************************************************)
(* C6. setRole keeps the owner: no step of a setRole call, accepted or     *)
(* rejected, takes a conversation with exactly one owner to one with none  *)
(* or with several.                                                        *)
(***************************************************************************)
C6_SetRoleKeepsOwner ==
  [][(reqs'[1].pc # "idle" /\ reqs'[1].op = "part.setRole")
       => \A c \in ConvIds :
            Cardinality(Owners(c)) = 1 => Cardinality(Owners(c))' = 1]_vars

\* The owner changed the role of another participant.
C6_Witness ==
  /\ reqs[1].pc = "done" /\ reqs[1].op = "part.setRole" /\ reqs[1].status = 200
  /\ \E d \in ParticipantsOf(reqs[1].conv) :
       Participant(reqs[1].conv, d).role = "admin"

(***************************************************************************)
(* C7. Direct conversations keep their members: no step of an add          *)
(* participant, remove participant or redeem call changes the participant  *)
(* set of a conversation of type direct.                                   *)
(***************************************************************************)
C7_DirectMembersFixed ==
  [][(reqs[1].pc # "idle"
        /\ reqs[1].op \in {"part.add", "part.remove", "inv.redeem"})
       => \A c \in ConvIds :
            (conversations[c] # NoRow /\ conversations[c].type = "direct")
              => ParticipantsOf(c)' = ParticipantsOf(c)]_vars

(***************************************************************************)
(* C8. Membership gating: a request that names an existing conversation,   *)
(* from an identity that is not among its participants, is refused at its  *)
(* first statement with the status the same request gets for an id that    *)
(* names no conversation, whatever its body, and no table changes.         *)
(***************************************************************************)
\* identity is outside conversation c, and g names no conversation.
Outsider(identity, c, g) ==
  /\ conversations[c] # NoRow
  /\ Participant(c, identity) = NoRow
  /\ conversations[g] = NoRow

\* The request is answered with status, which is an error, and nothing is written.
Refused(op, identity, c, status) ==
  /\ status # 0
  /\ reqs'[1] = [pc |-> "done", op |-> op, who |-> identity, conv |-> c,
                 status |-> status, member |-> FALSE]
  /\ UNCHANGED << convTables, keyTables, ids >>

C8_SameAsNoConversation ==
  [][\A identity \in DIDs, c, g \in ConvIds :
       (Outsider(identity, c, g) /\ Arrives(1)) =>
         /\ GetConversation(1, identity, c)
              => Refused("conv.get", identity, c, GetCheck(g, identity))
         /\ \A name \in NameInputs :
              UpdateConversation(1, identity, c, name)
                => Refused("conv.update", identity, c, UpdateCheck(g, identity))
         /\ DeleteConversation(1, identity, c)
              => Refused("conv.delete", identity, c, DeleteCheck(g, identity))
         /\ ListParticipants(1, identity, c)
              => Refused("part.list", identity, c, ListParticipantsCheck(g, identity))
         /\ \A did \in DidInputs, role \in RoleInputs :
              /\ AddParticipant(1, identity, c, did, role)
                   => Refused("part.add", identity, c, AddCheck(g, identity, did, role))
              /\ SetRole(1, identity, c, did, role)
                   => Refused("part.setRole", identity, c,
                              SetRoleCheck(g, identity, did, role))
              /\ RemoveParticipant(1, identity, c, did)
                   => Refused("part.remove", identity, c, RemoveCheck(g, identity, did))
         /\ \A limit \in LimitInputs, before \in MsgIds \cup {NoId} :
              ListMessages(1, identity, c, limit, before)
                => Refused("msg.list", identity, c, ListMessagesCheck(g, identity))
         /\ \A content \in ContentInputs, replyTo \in MsgIds \cup {NoId} :
              SendMessage(1, identity, c, content, replyTo)
                => Refused("msg.send", identity, c, SendCheck(g, identity))
         /\ \A maxUses \in MaxUsesInputs, expiresInHours \in HoursInputs :
              CreateInvite(1, identity, c, Null, maxUses, expiresInHours)
                => Refused("inv.create", identity, c, InviteCreateCheck(g, identity))
         /\ ListInvites(1, identity, c)
              => Refused("inv.list", identity, c, InviteListCheck(g, identity))]_vars

\* "c" asked to send a message to a conversation it is not in, and got 404.
C8_Witness ==
  /\ Answered(1) /\ reqs[1].op = "msg.send" /\ reqs[1].status = 404
  /\ ~reqs[1].member
  /\ conversations[reqs[1].conv] # NoRow

Valid(invite) ==
  /\ invite.revokedAt = NoTime
  /\ invite.expiresAt = NoTime \/ now < invite.expiresAt
  /\ invite.maxUses = NoMax \/ invite.usedCount < invite.maxUses

C10_GoneUnlessValid ==
  [][\A s \in Slots, i \in InviteIds :
       (/\ Arrives(s)
        /\ reqs'[s].op \in {"inv.preview", "inv.redeem"}
        /\ reqs'[s].invite = i
        /\ invites[i] # NoRow
        /\ ~Valid(invites[i]))
         => (reqs'[s].pc = "done" /\ reqs'[s].status = 410)]_vars

(***************************************************************************)
(* C11. Revocation is terminal: once an invite has a revokedAt, no step    *)
(* removes the row or takes revokedAt back to null, and no step inserts a  *)
(* participant through that invite, also when a redeem that had read the   *)
(* invite before the revoke is still in flight.                            *)
(***************************************************************************)
C11_RevocationTerminal ==
  [][\A i \in InviteIds :
       (invites[i] # NoRow /\ invites[i].revokedAt # NoTime)
         => /\ invites'[i] # NoRow
            /\ invites'[i].revokedAt # NoTime
            /\ joinedVia'[i] = joinedVia[i]]_vars

(***************************************************************************)
(* C12. Redeem by an existing member is a no-op: a redeem of an invite     *)
(* that is valid, and whose forDid is null or the redeemer, by an identity *)
(* that is a participant of the invite's conversation passes the checks of *)
(* the invite row, and its lookup of the membership answers 200 with       *)
(* alreadyMember = true; neither step changes usedCount, any participant   *)
(* row (role, invitedBy) or the message list.                              *)
(***************************************************************************)
C12_ExistingMemberNoOp ==
  [][\A s \in Slots :
       /\ \A identity \in DIDs, i \in InviteIds :
            (/\ RedeemInvite(s, identity, i)
             /\ invites[i] # NoRow /\ Valid(invites[i])
             /\ invites[i].forDid \in {Null, identity}
             /\ Participant(invites[i].conversationId, identity) # NoRow)
              => /\ reqs'[s].pc = "findExisting"
                 /\ UNCHANGED << convTables, ids, joinedVia >>
       /\ (/\ At(s, "inv.redeem", "findExisting")
           /\ reqs'[s] # reqs[s]
           /\ Participant(reqs[s].conv, reqs[s].who) # NoRow)
            => /\ reqs'[s] = InviteResp(reqs[s], 200) @@ [alreadyMember |-> TRUE]
               /\ UNCHANGED << convTables, ids, joinedVia >>]_vars

\* "a", the owner, redeemed an invite to its own group that admits anyone,
\* and was told it is a member already.
C12_Witness ==
  \E s \in Slots :
    /\ reqs[s].pc = "done" /\ reqs[s].op = "inv.redeem" /\ reqs[s].status = 200
    /\ "alreadyMember" \in DOMAIN reqs[s]
    /\ reqs[s].who = "a"
    /\ invites[reqs[s].invite].usedCount = 0
    /\ Participant(invites[reqs[s].invite].conversationId, "a").role = "owner"

(***************************************************************************)
(* C13. forDid binding: a participant row that is inserted through an      *)
(* invite with a forDid is the row of forDid; a redeem of such an invite,  *)
(* while it is valid, by any other identity is answered 403 at once, and   *)
(* participants and usedCount stay as they were.                           *)
(***************************************************************************)
C13_ForDidBinding ==
  [][\A i \in InviteIds :
       (invites[i] # NoRow /\ invites[i].forDid # Null) =>
         /\ joinedVia'[i] # joinedVia[i] =>
              \A c \in ConvIds, d \in DIDs :
                Participant(c, d)' # Participant(c, d)
                  => /\ c = invites[i].conversationId
                     /\ d = invites[i].forDid
                     /\ Participant(c, d) = NoRow
         /\ \A s \in Slots, identity \in DIDs :
              (/\ Arrives(s)
               /\ reqs'[s].op = "inv.redeem"
               /\ reqs'[s].invite = i
               /\ reqs'[s].who = identity
               /\ Valid(invites[i])
               /\ identity # invites[i].forDid)
                => /\ reqs'[s] = InviteResp(reqs'[s], 403)
                   /\ UNCHANGED << convTables, ids, joinedVia >>]_vars

\* "c" has joined through an invite issued for "c", and "b" has been refused.
C13_Witness ==
  \E s \in Slots, i \in InviteIds :
    /\ invites[i] # NoRow /\ invites[i].forDid = "c"
    /\ joinedVia[i] = 1
    /\ Participant(invites[i].conversationId, "c") # NoRow
    /\ reqs[s].pc = "done" /\ reqs[s].op = "inv.redeem"
    /\ reqs[s].who = "b" /\ reqs[s].status = 403

(***************************************************************************)
(* C14. Removal hierarchy, one request at a time: a remove call deletes    *)
(* the row of another participant only when the requester is a participant *)
(* of role admin or above whose rank is strictly greater than the          *)
(* target's; it deletes nothing but the row it names.  A requester below   *)
(* admin is answered 403; a call that is answered with an error has        *)
(* deleted nothing; a call that is answered 200 has appended the system    *)
(* message "<requester> removed <did>" (or "left the group").              *)
(***************************************************************************)
C14_RemovalHierarchy ==
  [][/\ \A identity \in DIDs, c \in ConvIds, did \in DidInputs :
          (Arrives(1) /\ reqs'[1].op = "part.remove"
             /\ RemoveParticipant(1, identity, c, did))
            => /\ UNCHANGED << participants, messages >>
               /\ (/\ did # identity /\ isValidDid(did)
                   /\ Participant(c, identity) # NoRow
                   /\ hierarchyIndexOf(Participant(c, identity).role)
                        < hierarchyIndexOf("admin"))
                    => (reqs'[1].pc = "done" /\ reqs'[1].status = 403)
     /\ (reqs[1].pc \notin {"idle", "done"} /\ reqs[1].op = "part.remove") =>
          LET r == reqs[1] IN
          /\ \A c \in ConvIds, d \in DIDs :
               Participant(c, d)' # Participant(c, d)
                 => /\ c = r.conv /\ d = r.did
                    /\ Participant(c, d)' = NoRow
                    /\ reqs'[1].pc = "insertMessage"
                    /\ d # r.who =>
                         LET me == Participant(c, r.who)
                             target == Participant(c, d) IN
                         /\ me # NoRow
                         /\ hierarchyIndexOf(me.role) >= hierarchyIndexOf("admin")
                         /\ hierarchyIndexOf(me.role) > hierarchyIndexOf(target.role)
          /\ reqs'[1].pc = "done" =>
               IF reqs'[1].status = 200
               THEN /\ r.pc = "insertMessage"
                    /\ participants' = participants
                    /\ Participant(r.conv, r.did) = NoRow
                    /\ Len(messages') = Len(messages) + 1
                    /\ LET m == messages'[Len(messages')] IN
                       /\ m.conversationId = r.conv /\ m.fromDid = r.who
                       /\ m.contentType = "system"
                       /\ m.content = SystemContent(IF r.did = r.who THEN "left"
                                                    ELSE "removed", r.did)
               ELSE /\ r.pc = "findTarget"
                    /\ UNCHANGED << participants, messages >>]_vars

\* The owner "a" removed the member "b": the row is gone and the last message
\* says so.
C14_Witness ==
  /\ reqs[1].pc = "done" /\ reqs[1].op = "part.remove" /\ reqs[1].status = 200
  /\ reqs[1].who = "a"
  /\ Participant(reqs[1].conv, "a") # NoRow
  /\ Participant(reqs[1].conv, "a").role = "owner"
  /\ Participant(reqs[1].conv, "b") = NoRow
  /\ messages # << >>
  /\ messages[Len(messages)].content = SystemContent("removed", "b")
  /\ messages[Len(messages)].fromDid = "a"

(***************************************************************************)
(* C15. Add authorization, one request at a time: an add call inserts a    *)
(* participant row only when the requester is a participant of role admin  *)
(* or above, and a requester who is not the owner inserts only roles that  *)
(* rank below its own; a requester below admin is answered 403, a          *)
(* requester who is not the owner and asks for its own role or a higher    *)
(* one is answered with an error, and an add that is answered with an      *)
(* error has changed neither the participants nor the messages.            *)
(***************************************************************************)
C15_AddAuthorization ==
  [][/\ \A identity \in DIDs, c \in ConvIds, did \in DidInputs, role \in RoleInputs :
          (Arrives(1) /\ reqs'[1].op = "part.add"
             /\ AddParticipant(1, identity, c, did, role))
            => LET me == Participant(c, identity) IN
               /\ UNCHANGED << participants, messages >>
               /\ (me = NoRow
                     \/ hierarchyIndexOf(me.role) < hierarchyIndexOf("admin"))
                    => (reqs'[1].pc = "done" /\ reqs'[1].status = 403)
               /\ (/\ me # NoRow /\ me.role # "owner"
                   /\ hierarchyIndexOf(role) >= hierarchyIndexOf(me.role))
                    => (reqs'[1].pc = "done" /\ reqs'[1].status \in {400, 403})
     /\ (reqs[1].pc \notin {"idle", "done"} /\ reqs[1].op = "part.add") =>
          LET r == reqs[1]
              me == Participant(r.conv, r.who) IN
          /\ \A c \in ConvIds, d \in DIDs :
               Participant(c, d)' # Participant(c, d)
                 => /\ c = r.conv /\ d = r.did
                    /\ Participant(c, d) = NoRow
                    /\ Participant(c, d)' = ParticipantRow(r.role, r.who)
                    /\ me # NoRow
                    /\ hierarchyIndexOf(me.role) >= hierarchyIndexOf("admin")
                    /\ me.role # "owner"
                         => hierarchyIndexOf(r.role) < hierarchyIndexOf(me.role)
          /\ (reqs'[1].pc = "done" /\ reqs'[1].status # 201)
               => /\ r.pc = "findExisting"
                  /\ UNCHANGED << participants, messages >>]_vars

\* The admin "b" added "c" as a member.
C15_Witness ==
  /\ reqs[1].pc = "done" /\ reqs[1].op = "part.add" /\ reqs[1].status = 201
  /\ reqs[1].who = "b"
  /\ Participant(reqs[1].conv, "b") # NoRow
  /\ Participant(reqs[1].conv, "b").role = "admin"
  /\ Participant(reqs[1].conv, "c") = ParticipantRow("member", "b")

(***************************************************************************)
(* C16. Unique membership: an add call that finds a participant row for    *)
(* the did it names, at its lookup or, with another add in flight, at its  *)
(* insert, inserts nothing and is answered Conflict (409).  (The primary   *)
(* key keeps the rows to one for each conversation and did.)               *)
(***************************************************************************)
C16_SecondAddIsConflict ==
  [][\A s \in Slots :
       (/\ reqs[s].pc \in {"findExisting", "insert"} /\ reqs[s].op = "part.add"
        /\ reqs'[s] # reqs[s]
        /\ Participant(reqs[s].conv, reqs[s].did) # NoRow)
         => /\ reqs'[s].pc = "done" /\ reqs'[s].status = 409
            /\ UNCHANGED participants]_vars

(***************************************************************************)
(* C17. setRole authorization, one request at a time: a setRole call       *)
(* changes a role only when the requester's role is owner and the target   *)
(* is not the requester, and then only the role of the target; a call by   *)
(* an admin, member, readonly participant or non-participant, or one that  *)
(* names the requester, is answered with an error on arrival, and every    *)
(* role and the message list stay as they were.                            *)
(***************************************************************************)
C17_SetRoleAuthorization ==
  [][/\ (Arrives(1) /\ reqs'[1].op = "part.setRole") =>
          \A identity \in DIDs, c \in ConvIds, did \in DidInputs, role \in RoleInputs :
            SetRole(1, identity, c, did, role)
              => LET me == Participant(c, identity) IN
                 /\ UNCHANGED << participants, messages >>
                 /\ (me = NoRow \/ me.role # "owner" \/ did = identity)
                      => (reqs'[1].pc = "done" /\ reqs'[1].status \in {400, 403})
     /\ (reqs[1].pc \notin {"idle", "done"} /\ reqs[1].op = "part.setRole") =>
          LET r == reqs[1]
              me == Participant(r.conv, r.who) IN
          /\ \A c \in ConvIds, d \in DIDs :
               Participant(c, d)' # Participant(c, d)
                 => /\ c = r.conv /\ d = r.did /\ d # r.who
                    /\ me # NoRow /\ me.role = "owner"
                    /\ Participant(c, d) # NoRow
                    /\ Participant(c, d)' = [Participant(c, d) EXCEPT !.role = r.role]
          /\ reqs'[1].pc = "done" => reqs'[1].status = 200]_vars

\* The owner "a" made the member "b" readonly.
C17_Witness ==
  /\ reqs[1].pc = "done" /\ reqs[1].op = "part.setRole" /\ reqs[1].status = 200
  /\ reqs[1].who = "a"
  /\ Participant(reqs[1].conv, "a") # NoRow
  /\ Participant(reqs[1].conv, "a").role = "owner"
  /\ Participant(reqs[1].conv, "b") = ParticipantRow("readonly", "a")

(***************************************************************************)
(* C18. Message list ordering: a list call by a participant answers with   *)
(* at most min(limit, 100) messages, each of them once, all of the         *)
(* conversation and none soft-deleted, all created strictly before the     *)
(* message that `before` names when it names one; they are the most recent *)
(* such messages, as many as the limit allows, oldest first.               *)
(***************************************************************************)
\* The row of the message with this id.
MessageOf(id) == messages[CHOOSE i \in 1 .. Len(messages) : messages[i].id = id]

\* The ids of the messages a page of conversation c may hold when the
\* request names `before`.
Eligible(c, before) ==
  {messages[i].id : i \in
     {i \in 1 .. Len(messages) :
        /\ messages[i].conversationId = c
        /\ messages[i].deletedAt = NoTime
        /\ \A j \in 1 .. Len(messages) :
             messages[j].id = before => messages[i].createdAt < messages[j].createdAt}}

C18_ListOrdering ==
  [][/\ \A identity \in DIDs, limit \in PageLimits, before \in MsgIds \cup {NoId} :
          (ListMessages(1, identity, 1, limit, before) /\ reqs'[1].pc # "done")
            => reqs'[1].limit = (IF limit < 100 THEN limit ELSE 100)
     /\ (At(1, "msg.list", "query") /\ reqs'[1].pc = "done") =>
          LET r == reqs[1]
              page == reqs'[1].messages
              eligible == Eligible(r.conv, r.before) IN
          /\ reqs'[1].status = 200
          /\ Len(page) <= r.limit
          /\ \A i, j \in 1 .. Len(page) : i # j => page[i] # page[j]
          /\ \A i \in 1 .. Len(page) : page[i] \in eligible
          /\ Len(page) = Cardinality(eligible) \/ Len(page) = r.limit
          /\ \A i \in 1 .. Len(page) : \A e \in eligible :
               (\A j \in 1 .. Len(page) : page[j] # e)
                 => MessageOf(e).createdAt <= MessageOf(page[i]).createdAt
          /\ \A i, j \in 1 .. Len(page) :
               i < j => MessageOf(page[i]).createdAt <= MessageOf(page[j]).createdAt]_vars

\* Four messages sent at four times; the page of the two before the last,
\* oldest first.
C18_Witness ==
  /\ Len(messages) = 4
  /\ \A i \in 1 .. 3 : messages[i].createdAt < messages[i + 1].createdAt
  /\ reqs[1].pc = "done" /\ reqs[1].op = "msg.list" /\ reqs[1].status = 200
  /\ reqs[1].messages = << 2, 3 >>

(***************************************************************************)
(* C19. Pagination scenario: messages 1, 2, 3, 4 of one conversation,      *)
(* created at strictly increasing times, and pages of limit 2.             *)
(***************************************************************************)
\* The request in slot 1 is about to be answered with a page of at most two
\* of the four messages.
FourMessagesPageOfTwo ==
  /\ At(1, "msg.list", "query")
  /\ reqs[1].limit = 2
  /\ Len(messages) = 4
  /\ \A i \in 1 .. 4 : messages[i].id = i /\ messages[i].conversationId = reqs[1].conv
  /\ \A i \in 1 .. 3 : messages[i].createdAt < messages[i + 1].createdAt

\* As stated: list with limit 2 answers messages 3, 4 with hasMore = true,
\* and list with limit 2 and before = the id of message 3 answers messages
\* 1, 2 with hasMore = false.
C19_SecondPageHasNoMore ==
  [][(FourMessagesPageOfTwo /\ reqs'[1].pc = "done")
       => /\ reqs[1].before = NoId
               => (reqs'[1].messages = << 3, 4 >> /\ reqs'[1].hasMore = TRUE)
          /\ reqs[1].before = 3
               => (reqs'[1].messages = << 1, 2 >> /\ reqs'[1].hasMore = FALSE)]_vars

\* As the contract of list has it (hasMore is true iff the page holds limit
\* rows): the first page is messages 3, 4 with hasMore = true, and the page
\* before message 3 is messages 1, 2, also with hasMore = true; the page
\* before message 1 is empty with hasMore = false.
C19_TwoFullPages ==
  [][(FourMessagesPageOfTwo /\ reqs'[1].pc = "done")
       => /\ reqs'[1].status = 200
          /\ reqs[1].before = NoId
               => (reqs'[1].messages = << 3, 4 >> /\ reqs'[1].hasMore = TRUE)
          /\ reqs[1].before = 3
               => (reqs'[1].messages = << 1, 2 >> /\ reqs'[1].hasMore = TRUE)
          /\ reqs[1].before = 1
               => (reqs'[1].messages = << >> /\ reqs'[1].hasMore = FALSE)]_vars

\* The second page of the scenario as it is answered.
C19_Witness ==
  /\ Len(messages) = 4
  /\ \A i \in 1 .. 3 : messages[i].createdAt < messages[i + 1].createdAt
  /\ reqs[1].pc = "done" /\ reqs[1].op = "msg.list" /\ reqs[1].status = 200
  /\ reqs[1].messages = << 1, 2 >>
  /\ reqs[1].hasMore

(***************************************************************************)
(* C20. Send gating, one request at a time: a send call inserts a message  *)
(* only when the requester is a participant whose role ranks above         *)
(* readonly, and the row it inserts is the requester's; a readonly         *)
(* participant is answered 403 and a requester without a participant row   *)
(* 404, on arrival, with the messages and the conversation row             *)
(* (lastMessageAt, updatedAt) unchanged.                                   *)
(***************************************************************************)
C20_SendGating ==
  [][/\ (Arrives(1) /\ reqs'[1].op = "msg.send") =>
          LET participant == Participant(reqs'[1].conv, reqs'[1].who) IN
          /\ UNCHANGED << messages, conversations >>
          /\ participant = NoRow => (reqs'[1].pc = "done" /\ reqs'[1].status = 404)
          /\ (participant # NoRow /\ participant.role = "readonly")
               => (reqs'[1].pc = "done" /\ reqs'[1].status = 403)
     /\ (reqs[1].pc \notin {"idle", "done"} /\ reqs[1].op = "msg.send") =>
          LET r == reqs[1]
              participant == Participant(r.conv, r.who) IN
          /\ messages' # messages
               => /\ participant # NoRow
                  /\ hierarchyIndexOf(participant.role) > hierarchyIndexOf("readonly")
                  /\ Len(messages') = Len(messages) + 1
                  /\ messages'[Len(messages')].fromDid = r.who
                  /\ messages'[Len(messages')].conversationId = r.conv
          /\ conversations' # conversations => reqs'[1].status = 201]_vars

(***************************************************************************)
(* C21. No client-injected system messages: no step of a send call,        *)
(* whatever content the caller supplies, appends a message with            *)
(* contentType = system; such messages come from the membership, role,     *)
(* invite and creation handlers alone.                                     *)
(***************************************************************************)
C21_NoClientSystemMessage ==
  [][(reqs[1].pc # "idle" /\ reqs[1].op = "msg.send" /\ messages' # messages)
       => messages'[Len(messages')].contentType # "system"]_vars

(***************************************************************************)
(* C22. Zero-hour expiry: a request to create an invite with               *)
(* expiresInHours = 0 that passes the checks gives the invite an expiresAt *)
(* that has been reached (expiresAt <= now), so that the invite is expired *)
(* from its first instant and preview and redeem answer 410.               *)
(***************************************************************************)
C22_ZeroHoursIsExpired ==
  [][\A s \in Slots, identity \in DIDs, forDid \in {Null, "c"},
        maxUses \in MaxUsesInputs :
       (CreateInvite(s, identity, 1, forDid, maxUses, 0) /\ reqs'[s].pc = "insert")
         => /\ reqs'[s].expiresAt # NoTime
            /\ reqs'[s].expiresAt <= now]_vars

(***************************************************************************)
(* C23. Owner-only cascading delete: every participant, message and invite *)
(* row names a conversation that exists, in every state, also while delete *)
(* runs together with add, send and redeem; a conversation row is removed  *)
(* only by the delete step of a request whose requester has role owner in  *)
(* it, and that step leaves no row that names the conversation; a delete   *)
(* asked for by anyone else is answered 403 on arrival and changes nothing.*)
(***************************************************************************)
\* No row names a conversation that is gone.
AllRowsReferToConversations ==
  /\ \A c \in ConvIds, d \in DIDs :
       Participant(c, d) # NoRow => conversations[c] # NoRow
  /\ \A i \in 1 .. Len(messages) : conversations[messages[i].conversationId] # NoRow
  /\ \A i \in InviteIds :
       invites[i] # NoRow => conversations[invites[i].conversationId] # NoRow

C23_OwnerOnlyCascade ==
  /\ []AllRowsReferToConversations
  /\ [][/\ \A c \in ConvIds :
             (conversations[c] # NoRow /\ conversations'[c] = NoRow)
               => \E s \in Slots :
                    /\ At(s, "conv.delete", "delete") /\ reqs[s].conv = c
                    /\ Participant(c, reqs[s].who) # NoRow
                    /\ Participant(c, reqs[s].who).role = "owner"
                    /\ reqs'[s].pc = "done" /\ reqs'[s].status = 200
                    /\ \A d \in DIDs : Participant(c, d)' = NoRow
                    /\ \A i \in 1 .. Len(messages') : messages'[i].conversationId # c
                    /\ \A i \in InviteIds :
                         invites'[i] # NoRow => invites'[i].conversationId # c
        /\ \A s \in Slots :
             (Arrives(s) /\ reqs'[s].op = "conv.delete")
               => /\ UNCHANGED convTables
                  /\ LET participant == Participant(reqs'[s].conv, reqs'[s].who) IN
                     (participant = NoRow \/ participant.role # "owner")
                       => (reqs'[s].pc = "done" /\ reqs'[s].status = 403)]_vars

\* The owner deleted the group, with its members, messages and invite, while
\* an add was in flight; the add found the conversation gone.
C23_Witness ==
  \E s, t \in Slots :
    /\ reqs[s].pc = "done" /\ reqs[s].op = "conv.delete" /\ reqs[s].status = 200
    /\ reqs[t].pc = "done" /\ reqs[t].op = "part.add" /\ reqs[t].status = 500
    /\ conversations[1] = NoRow
    /\ ids.msg >= 2 /\ ids.inv = 1
    /\ messages = << >>

(***************************************************************************)
(* C24. Verifier failure is not conflated with bad credentials: a request  *)
(* that is refused by requireAuth leaves the store as it was; it is        *)
(* answered 503 whenever it carried a token and the call to the verifier   *)
(* itself failed (no connection, a failure on the verifier's side, an      *)
(* answer that cannot be read), and 401 when the header is missing or      *)
(* malformed or the verifier rejected the token.                           *)
(***************************************************************************)
C24_UpstreamUnavailable ==
  [][\A s \in Slots, op \in AuthOps, header \in HeaderInputs,
        verifier \in VerifierOutcomes :
       RefuseAuth(s, op, header, verifier)
         => /\ UNCHANGED << convTables, keyTables, ids >>
            /\ reqs'[s].status =
                 IF header = "bearer"
                      /\ verifier \in {"fails", "garbled", "unreachable"}
                 THEN 503 ELSE 401]_vars

(***************************************************************************)
(* C25. Owner cannot leave, one request at a time: a remove call that      *)
(* names the requester is answered with an error on arrival when the       *)
(* requester's role is owner, and participants and messages stay as they   *)
(* were; for the roles readonly, member and admin it goes through: it      *)
(* deletes the requester's row and no other, appends the system message    *)
(* "<requester> left the group", and is answered 200.                      *)
(***************************************************************************)
C25_OwnerCannotLeave ==
  [][/\ \A identity \in DIDs, c \in ConvIds :
          (/\ Arrives(1) /\ reqs'[1].op = "part.remove"
           /\ RemoveParticipant(1, identity, c, identity)
           /\ Participant(c, identity) # NoRow)
            => /\ UNCHANGED << participants, messages >>
               /\ Participant(c, identity).role = "owner"
                    => (reqs'[1].pc = "done" /\ reqs'[1].status = 400)
               /\ Participant(c, identity).role \in {"readonly", "member", "admin"}
                    => reqs'[1].pc = "findTarget"
     /\ (/\ reqs[1].pc \notin {"idle", "done"} /\ reqs[1].op = "part.remove"
         /\ reqs[1].did = reqs[1].who) =>
          LET r == reqs[1] IN
          /\ r.pc = "findTarget" =>
               (reqs'[1].pc = "delete" /\ UNCHANGED << participants, messages >>)
          /\ r.pc = "delete" =>
               /\ reqs'[1].pc = "insertMessage"
               /\ Participant(r.conv, r.who) # NoRow
               /\ Participant(r.conv, r.who).role # "owner"
               /\ participants' = [participants EXCEPT ![<<r.conv, r.who>>] = NoRow]
               /\ messages' = messages
          /\ r.pc = "insertMessage" =>
               /\ reqs'[1].pc = "done" /\ reqs'[1].status = 200
               /\ participants' = participants
               /\ Len(messages') = Len(messages) + 1
               /\ LET m == messages'[Len(messages')] IN
                  /\ m.conversationId = r.conv /\ m.fromDid = r.who
                  /\ m.contentType = "system"
                  /\ m.content = SystemContent("left", r.who)]_vars

\* "b", made readonly by the owner, has left.
C25_Witness ==
  /\ reqs[1].pc = "done" /\ reqs[1].op = "part.remove" /\ reqs[1].status = 200
  /\ reqs[1].who = "b"
  /\ Participant(reqs[1].conv, "b") = NoRow
  /\ Len(messages) = 2
  /\ messages[1].content = SystemContent("readonly", "b")
  /\ messages[2].content = SystemContent("left", "b")
  /\ messages[2].fromDid = "b"

(***************************************************************************)
(* C26. hasMore heuristic: every answer to a list call has hasMore = true  *)
(* exactly when the number of messages in it is the limit the handler      *)
(* used, min(limit, 100), whether or not older messages remain.            *)
(***************************************************************************)
C26_HasMoreIffFullPage ==
  [][(At(1, "msg.list", "query") /\ reqs'[1].pc = "done")
       => (reqs'[1].hasMore <=> Len(reqs'[1].messages) = reqs[1].limit)]_vars

\* The one message of the conversation, as a page of limit 1: hasMore is
\* true and nothing older remains.
C26_Witness ==
  /\ Len(messages) = 1
  /\ reqs[1].pc = "done" /\ reqs[1].op = "msg.list" /\ reqs[1].status = 200
  /\ reqs[1].messages = << 1 >>
  /\ reqs[1].hasMore

(***************************************************************************)
(* C27. Reply integrity: in every state each message whose replyTo is not  *)
(* null refers to a message that exists in the same conversation; a send   *)
(* call whose replyTo names no message, or a message of another            *)
(* conversation, is answered 404 and inserts nothing.                      *)
(***************************************************************************)
RepliesStayInConversation ==
  \A i \in 1 .. Len(messages) :
    messages[i].replyTo # NoId =>
      \E j \in 1 .. Len(messages) :
        /\ messages[j].id = messages[i].replyTo
        /\ messages[j].conversationId = messages[i].conversationId

C27_ReplyIntegrity ==
  /\ []RepliesStayInConversation
  /\ [][\A s \in Slots :
          (/\ At(s, "msg.send", "findReply")
           /\ reqs'[s] # reqs[s]
           /\ ~ \E j \in 1 .. Len(messages) :
                  /\ messages[j].id = reqs[s].replyTo
                  /\ messages[j].conversationId = reqs[s].conv)
            => /\ reqs'[s].pc = "done" /\ reqs'[s].status = 404
               /\ messages' = messages]_vars

\* Both conversations hold messages, one of them a reply, and a member's
\* send has been answered 404.
C27_Witness ==
  /\ \E i \in 1 .. Len(messages) : messages[i].replyTo # NoId
  /\ \A c \in ConvIds : \E i \in 1 .. Len(messages) : messages[i].conversationId = c
  /\ reqs[1].pc = "done" /\ reqs[1].op = "msg.send"
  /\ reqs[1].member /\ reqs[1].status = 404

(***************************************************************************)
(* C28. Direct conversations are never renamed and type is immutable: no   *)
(* step changes the name of a conversation of type direct, and no step     *)
(* changes the type or createdBy of a conversation that exists before and  *)
(* after it.                                                               *)
(***************************************************************************)
C28_DirectNeverRenamed ==
  [][\A c \in ConvIds :
       (conversations[c] # NoRow /\ conversations'[c] # NoRow)
         => /\ conversations'[c].type = conversations[c].type
            /\ conversations'[c].createdBy = conversations[c].createdBy
            /\ conversations[c].type = "direct"
                 => conversations'[c].name = conversations[c].name]_vars

(***************************************************************************)
(* C29. Invite issuance authorization: a create-invite call by a requester *)
(* who has no participant row in the conversation, or whose role ranks     *)
(* below admin, is answered 403 and inserts no invite; every invite row    *)
(* that appears was created by a call of a participant of its conversation *)
(* whose role ranks admin or above.                                        *)
(***************************************************************************)
MayIssue(c, identity) ==
  /\ Participant(c, identity) # NoRow
  /\ hierarchyIndexOf(Participant(c, identity).role) >= hierarchyIndexOf("admin")

C29_InviteIssuance ==
  [][/\ (/\ Arrives(1) /\ reqs'[1].op = "inv.create"
         /\ reqs'[1].conv # NoId
         /\ ~MayIssue(reqs'[1].conv, reqs'[1].who))
          => /\ reqs'[1].pc = "done" /\ reqs'[1].status = 403
             /\ invites' = invites
     /\ \A i \in InviteIds :
          (invites[i] = NoRow /\ invites'[i] # NoRow)
            => /\ reqs[1].pc = "insert" /\ reqs[1].op = "inv.create"
               /\ invites'[i].conversationId = reqs[1].conv
               /\ invites'[i].createdBy = reqs[1].who
               /\ MayIssue(reqs[1].conv, reqs[1].who)]_vars

\* An invite created by a participant whose role is admin.
C29_Witness ==
  \E i \in InviteIds :
    /\ invites[i] # NoRow
    /\ Participant(invites[i].conversationId, invites[i].createdBy) # NoRow
    /\ Participant(invites[i].conversationId, invites[i].createdBy).role = "admin"
    /\ reqs[1].pc = "done" /\ reqs[1].op = "inv.create" /\ reqs[1].status = 201

(***************************************************************************)
(* C30. usedCount is monotonic: an invite row appears with usedCount 0,    *)
(* and no step of a redeem, preview or revoke call lowers the usedCount of *)
(* an invite, however the calls interleave.                                *)
(***************************************************************************)
C30_UsedCountMonotonic ==
  [][\A i \in InviteIds :
       /\ (invites[i] = NoRow /\ invites'[i] # NoRow) => invites'[i].usedCount = 0
       /\ (invites[i] # NoRow /\ invites'[i] # NoRow)
            => invites'[i].usedCount >= invites[i].usedCount]_vars

(***************************************************************************)
(* C31. Redemption is atomic: whenever no redeem call is in flight, the    *)
(* usedCount of every invite equals the number of participant rows that    *)
(* redeem calls inserted through that invite.                              *)
(***************************************************************************)
NoRedeemInFlight ==
  \A s \in Slots : reqs[s].pc \in {"idle", "done"} \/ reqs[s].op # "inv.redeem"

C31_RedemptionAtomic ==
  NoRedeemInFlight =>
    \A i \in InviteIds : invites[i] # NoRow => invites[i].usedCount = joinedVia[i]

(***************************************************************************)
(* C32. Creation postconditions: a create call answered 201 has inserted   *)
(* exactly one conversation; its participants are the requester with role  *)
(* owner and invitedBy null, and every other did of the call with role     *)
(* member; its messages are the one creation system message when the type  *)
(* is group, and none when the type is direct.  A group create without a   *)
(* name is answered 400 and inserts no row.                                *)
(***************************************************************************)
MessagesIn(c) == SelectSeq(messages, LAMBDA m : m.conversationId = c)

C32_CreationPostconditions ==
  [][/\ \A identity \in Creators, dids \in DidLists :
          (/\ Arrives(1) /\ reqs'[1].op = "conv.create"
           /\ StartCreate(1, identity, "group", Null, dids))
            => /\ reqs'[1].pc = "done" /\ reqs'[1].status = 400
               /\ UNCHANGED << convTables, ids >>
     /\ (reqs[1].pc \notin {"idle", "done"} /\ reqs[1].op = "conv.create") =>
          LET r == reqs[1] IN
          /\ \A c \in ConvIds :
               (conversations[c] = NoRow /\ conversations'[c] # NoRow)
                 => /\ r.pc = "insertConv" /\ reqs'[1].pc = "insertOwner"
                    /\ reqs'[1].conv = c
                    /\ \A d \in ConvIds \ {c} : conversations'[d] = conversations[d]
          /\ (reqs'[1].pc = "done" /\ reqs'[1].status = 201) =>
               /\ conversations'[r.conv] # NoRow
               /\ conversations'[r.conv].type = r.type
               /\ conversations'[r.conv].createdBy = r.who
               /\ \A d \in Identities :
                    participants'[<< r.conv, d >>] =
                      IF d = r.who THEN [row |-> TRUE, role |-> "owner", invitedBy |-> Null]
                      ELSE IF \E k \in 1 .. Len(r.dids) : r.dids[k] = d
                      THEN [row |-> TRUE, role |-> "member", invitedBy |-> r.who]
                      ELSE NoRow
               /\ LET created == SelectSeq(messages', LAMBDA m : m.conversationId = r.conv) IN
                  IF r.type = "group"
                  THEN /\ Len(created) = 1
                       /\ created[1].contentType = "system"
                       /\ created[1].content = SystemContent("created", r.who)
                       /\ created[1].fromDid = r.who
                  ELSE created = << >>]_vars

\* "a" has created a group with "b" and "c".
C32_Witness ==
  /\ reqs[1].pc = "done" /\ reqs[1].op = "conv.create" /\ reqs[1].status = 201
  /\ reqs[1].who = "a"
  /\ conversations[reqs[1].conv] # NoRow
  /\ conversations[reqs[1].conv].type = "group"
  /\ ParticipantsOf(reqs[1].conv) = {"a", "b", "c"}
  /\ Len(MessagesIn(reqs[1].conv)) = 1

(***************************************************************************)
(* C33. Role domain: in every state the role of every participant row is   *)
(* one of readonly, member, admin, owner.                                  *)
(***************************************************************************)
C33_RoleDomain ==
  \A c \in ConvIds, d \in Identities :
    Participant(c, d) # NoRow
      => Participant(c, d).role \in {"readonly", "member", "admin", "owner"}

(***************************************************************************)
(* C34. Pagination completeness: on a store that does not change, calling  *)
(* list with one limit of at least 1, first without before and then with   *)
(* before the id of the oldest message of the page before, until a page is *)
(* empty, returns every message of the conversation that is not deleted    *)
(* exactly once.                                                           *)
(***************************************************************************)
\* The pages a list call may return for a cursor time, newest first.
PagesAt(c, limit, cursorAt) ==
  {SubSeq(q, 1, Min(limit, Len(q))) : q \in Descending(Selected(c, cursorAt))}

\* The runs of calls from a cursor time on: the rows returned, page after
\* page; the next cursor is the createdAt of the oldest row of the page.
RECURSIVE PagingRuns(_, _, _)
PagingRuns(c, limit, cursorAt) ==
  UNION {IF page = << >> THEN {<< >>}
         ELSE {page \o rest :
                 rest \in PagingRuns(c, limit, messages[page[Len(page)]].createdAt)} :
         page \in PagesAt(c, limit, cursorAt)}

C34_PaginationComplete ==
  \A c \in ConvIds, limit \in LimitInputs :
    (Quiescent /\ conversations[c] # NoRow) =>
      \A run \in PagingRuns(c, limitOf(limit), NoTime) :
        /\ {run[k] : k \in DOMAIN run} = Selected(c, NoTime)
        /\ Len(run) = Cardinality(Selected(c, NoTime))

(***************************************************************************)
(* C35. Failed creation leaves nothing behind: when a create call is       *)
(* answered with an error, on arrival or later, no conversation,           *)
(* participant or message row that the call inserted is in the store.      *)
(***************************************************************************)
C35_FailedCreateLeavesNothing ==
  [][/\ (/\ Arrives(1) /\ reqs'[1].op = "conv.create"
         /\ reqs'[1].pc = "done" /\ reqs'[1].status >= 400)
          => UNCHANGED convTables
     /\ (/\ reqs[1].pc \notin {"idle", "done"} /\ reqs[1].op = "conv.create"
         /\ reqs'[1].pc = "done" /\ reqs'[1].status >= 400
         /\ reqs[1].conv # NoId)
          => /\ conversations'[reqs[1].conv] = NoRow
             /\ \A d \in Identities : participants'[<< reqs[1].conv, d >>] = NoRow
             /\ \A k \in 1 .. Len(messages') :
                  messages'[k].conversationId # reqs[1].conv]_vars

(***************************************************************************)
(* C36. Removal hierarchy under interleaving: a remove call deletes the    *)
(* row of a participant other than the requester only if, in the state in  *)
(* which the delete takes effect, the requester is a participant whose     *)
(* role ranks admin or above and strictly above the role of the target.    *)
(***************************************************************************)
C36_RemovalHierarchyInterleaved ==
  [][\A s \in Slots :
       (/\ At(s, "part.remove", "delete")
        /\ reqs'[s].pc = "insertMessage"
        /\ reqs[s].did # reqs[s].who
        /\ Participant(reqs[s].conv, reqs[s].did) # NoRow
        /\ participants'[<< reqs[s].conv, reqs[s].did >>] = NoRow)
         => /\ Participant(reqs[s].conv, reqs[s].who) # NoRow
            /\ hierarchyIndexOf(Participant(reqs[s].conv, reqs[s].who).role)
                 >= hierarchyIndexOf("admin")
            /\ hierarchyIndexOf(Participant(reqs[s].conv, reqs[s].who).role)
                 > hierarchyIndexOf(Participant(reqs[s].conv, reqs[s].did).role)]_vars

(***************************************************************************)
(* C37. No messages from non-members under interleaving: a send call       *)
(* inserts a message row from X only if, in the state in which the insert  *)
(* takes effect, X is a participant of the conversation whose role ranks   *)
(* above readonly.                                                         *)
(***************************************************************************)
C37_SendByMembersInterleaved ==
  [][\A s \in Slots :
       (/\ At(s, "msg.send", "insert")
        /\ Len(messages') = Len(messages) + 1
        /\ messages'[Len(messages')].fromDid = reqs[s].who)
         => /\ Participant(reqs[s].conv, reqs[s].who) # NoRow
            /\ hierarchyIndexOf(Participant(reqs[s].conv, reqs[s].who).role)
                 > hierarchyIndexOf("readonly")]_vars

(***************************************************************************)
(* C38. Message listing is isolated per conversation: the answer to a list *)
(* call for a conversation is one that the same call has on the store      *)
(* without the messages of the other conversations, where before names a   *)
(* message only if it names one of this conversation.                      *)
(***************************************************************************)
\* The cursor time of before in a store that holds the messages of c alone.
OwnCursorAt(c, before) ==
  LET found == {i \in 1 .. Len(messages) :
                  messages[i].id = before /\ messages[i].conversationId = c} IN
  IF found = {} THEN NoTime ELSE messages[CHOOSE i \in found : TRUE].createdAt

C38_ListIsolation ==
  [][(At(1, "msg.list", "query") /\ reqs'[1].pc = "done") =>
       LET r == reqs[1] IN
       \E q \in Descending(Selected(r.conv, OwnCursorAt(r.conv, r.before))) :
         LET page == SubSeq(q, 1, Min(r.limit, Len(q))) IN
         /\ reqs'[1].messages = [k \in 1 .. Len(page) |-> messages[page[Len(page) + 1 - k]].id]
         /\ reqs'[1].hasMore = (Len(page) = r.limit)]_vars

(***************************************************************************)
(* C39. setRole on an absent target: no step of a setRole call that names  *)
(* a did without a participant row in the conversation changes a           *)
(* participant row or appends a message, and its answer is 404.            *)
(***************************************************************************)
C39_SetRoleAbsentTarget ==
  [][(/\ reqs[1].pc \notin {"idle", "done"} /\ reqs[1].op = "part.setRole"
      /\ reqs'[1] # reqs[1]
      /\ Participant(reqs[1].conv, reqs[1].did) = NoRow)
       => /\ participants' = participants
          /\ messages' = messages
          /\ reqs'[1].pc = "done" => reqs'[1].status = 404]_vars

(***************************************************************************)
(* C40. Pre-key availability: a key fetch that runs with no other fetch in *)
(* flight returns a oneTimePreKey exactly when the identity has a pre-key  *)
(* that is unused; the key returned was unused, it is marked used, and the *)
(* number of unused pre-keys drops by exactly one.  A used flag never      *)
(* returns to false.                                                       *)
(***************************************************************************)
Unused(did) == {k \in PreKeyCandidates(did) : ~preKeys[k].used}

UnusedAfter(did) ==
  {k \in PreKeyIds : preKeys'[k] # NoRow /\ preKeys'[k].did = did /\ ~preKeys'[k].used}

FetchesAlone(s) ==
  \A o \in Slots \ {s} : reqs[o].pc \in {"idle", "done"} \/ reqs[o].op # "keys.fetch"

C40_PreKeyAvailability ==
  [][/\ \A k \in PreKeyIds :
          (preKeys[k] # NoRow /\ preKeys[k].used)
            => (preKeys'[k] # NoRow /\ preKeys'[k].used)
     /\ \A s \in Slots :
          (/\ reqs[s].pc \notin {"idle", "done"} /\ reqs[s].op = "keys.fetch"
           /\ FetchesAlone(s)
           /\ reqs'[s].pc = "done" /\ reqs'[s].status = 200)
            => LET key == reqs'[s].oneTimePreKey
                   did == reqs[s].did IN
               IF reqs[s].pc = "preKey"
               THEN key = NoId /\ Unused(did) = {}
               ELSE /\ key \in Unused(did)
                    /\ preKeys'[key].used
                    /\ UnusedAfter(did) = Unused(did) \ {key}]_vars

====
